---- MODULE Spec2Model ----
(***************************************************************************)
(* A model of the external travel-data aggregator of the AI travel         *)
(* planner: the hotel search (SerpAPI), the airport-code lookup and the    *)
(* flight search (Aerodatabox) with their fallbacks, as state machines     *)
(* whose actions are whole calls of the Python functions.                  *)
(*                                                                         *)
(* Python values are tagged records, so that isinstance(), truthiness,     *)
(* `or`, dict.get and str() can be modelled as Python evaluates them.      *)
(* A computation that may raise yields an outcome: Ok(v) or Raise(e).      *)
(***************************************************************************)
EXTENDS Integers, Sequences, FiniteSets, TLC

VARIABLES
    env,    \* the process environment: RAPIDAPI_KEY, MISTRAL_API_KEY
    call,   \* the last call made: the function's name and its arguments
    ret,    \* what that call gave its caller: Ok(value) or Raise(exception)
    net,    \* the requests.get calls that call performed, in order
    rows,   \* the cells formatted into the table rows of the returned text
    caught, \* the exception that call's except clause caught, or "none"
    planner, \* the module's TravelPlanner(): whether it has an llm, a chain
    session, \* st.session_state: the chat messages and the AI insights
    prev    \* the flight search made before this one, once it is discarded

vars == <<env, call, ret, net, rows, caught, planner, session, prev>>

----------------------------------------------------------------------------
(* Python values *)

None == [none |-> TRUE]
Str(s) == [str |-> s]
Num(n) == [int |-> n]
List(l) == [list |-> l]
Dict(m) == [dict |-> m]
EmptyDict == Dict(<<>>)

\* The type of a value and what it holds
Tag(x) == CHOOSE k \in DOMAIN x : TRUE
Val(x) == x[Tag(x)]

Ok(v) == [ok |-> TRUE, v |-> v]
Raise(e) == [ok |-> FALSE, e |-> e]

\* [g(x) for x in xs], one element at a time: the list made of the first
\* element's value and the rest's, or the first exception raised
Cons(first, rest) ==
    IF ~first.ok THEN first
    ELSE IF ~rest.ok THEN rest
    ELSE Ok(<<first.v>> \o rest.v)

\* isinstance(x, dict)
IsDict(x) == Tag(x) = "dict"

\* a == b
PyEq(a, b) == Tag(a) = Tag(b) /\ a = b

\* bool(x): None, "", 0, [] and {} are false
Truthy(x) ==
    CASE Tag(x) = "none" -> FALSE
      [] Tag(x) = "str" -> Val(x) # ""
      [] Tag(x) = "int" -> Val(x) # 0
      [] Tag(x) = "list" -> Len(Val(x)) > 0
      [] Tag(x) = "dict" -> DOMAIN Val(x) # {}

\* str(x), as an f-string formats x; the text of a container is not modelled
PyStr(x) ==
    CASE Tag(x) = "none" -> "None"
      [] Tag(x) = "str" -> Val(x)
      [] Tag(x) = "int" -> ToString(Val(x))
      [] Tag(x) = "list" -> "[...]"
      [] Tag(x) = "dict" -> "{...}"

\* x.get(k, default): only a dict has .get
PyGet(x, k, default) ==
    IF ~IsDict(x) THEN Raise("AttributeError")
    ELSE IF k \in DOMAIN Val(x) THEN Ok(Val(x)[k]) ELSE Ok(default)

----------------------------------------------------------------------------
(* requests.get(url, ...); raise_for_status(); .json() *)

NotJson == [notjson |-> TRUE]
ConnFail == [k |-> "fail"]
Http(status, body) == [k |-> "http", status |-> status, body |-> body]

\* The three lines every call site shares: the request raises on a network
\* failure, raise_for_status on a 4xx/5xx status, json() on a body that is
\* not JSON.
GetJson(resp) ==
    IF resp.k = "fail" THEN Raise("ConnectionError")
    ELSE IF resp.status >= 400 THEN Raise("HTTPError")
    ELSE IF resp.body = NotJson THEN Raise("JSONDecodeError")
    ELSE Ok(resp.body)

----------------------------------------------------------------------------
(* mock_search_flights *)

\* ' returning ' + return_date if return_date else '': the + needs a str
ReturningPart(return_date) ==
    IF ~Truthy(return_date) THEN Ok("")
    ELSE IF Tag(return_date) # "str" THEN Raise("TypeError")
    ELSE Ok(" returning " \o Val(return_date))

\* Faulty variant: the returning part is written whatever return_date is
mock_search_flights_always_returning(origin, destination, departure_date, return_date, adults) ==
    Ok(Str("Flights from " \o PyStr(origin) \o " to " \o PyStr(destination)
           \o " on " \o PyStr(departure_date)
           \o " returning " \o PyStr(return_date)
           \o " for " \o PyStr(adults) \o " adults:\n"
           \o "- Airline X: $350\n- Airline Y: $420\n- Airline Z: $390"))

mock_search_flights(origin, destination, departure_date, return_date, adults) ==
    LET Text(part) ==
            IF ~part.ok THEN part
            ELSE Ok(Str("Flights from " \o PyStr(origin) \o " to "
                        \o PyStr(destination)
                        \o " on " \o PyStr(departure_date) \o part.v
                        \o " for " \o PyStr(adults) \o " adults:\n"
                        \o "- Airline X: $350\n- Airline Y: $420\n- Airline Z: $390"))
    IN  Text(ReturningPart(return_date))

----------------------------------------------------------------------------
(* get_iata_code *)

IataUrl(city_name) ==
    "https://aerodatabox.p.rapidapi.com/airports/search/term/"
        \o PyStr(city_name) \o "?limit=1"

\* items[0]: a list or a str can be indexed by 0, a dict is looked up with
\* the key 0 (a KeyError, the keys being strings), anything else raises
Index0(items) ==
    CASE Tag(items) = "list" -> Ok(Val(items)[1])
      [] Tag(items) = "str" -> Ok(Str(SubSeq(Val(items), 1, 1)))
      [] Tag(items) = "dict" -> Raise("KeyError")
      [] OTHER -> Raise("TypeError")

\* The try block falls through to the function's last line.
FellThrough == [fallthrough |-> TRUE]

\* The body of the try block: the value returned from inside it,
\* Ok(FellThrough) when it returns nothing, or the exception it raises.
IataLookup(city_name, resp) ==
    LET \* return items[0].get("iata") or city_name
        GivenIata(iata) ==
            IF ~iata.ok THEN iata
            ELSE IF Truthy(iata.v) THEN iata ELSE Ok(city_name)
        GivenFirst(first) ==
            IF ~first.ok THEN first
            ELSE GivenIata(PyGet(first.v, "iata", None))
        \* if items:
        GivenItems(items) ==
            IF ~items.ok THEN items
            ELSE IF ~Truthy(items.v) THEN Ok(FellThrough)
            ELSE GivenFirst(Index0(items.v))
        \* items = data.get("items", [])
        GivenData(data) ==
            IF ~data.ok THEN data
            ELSE GivenItems(PyGet(data.v, "items", List(<<>>)))
    IN  GivenData(GetJson(resp))

\* Faulty variant: the last line is missing, so that a lookup that finds
\* nothing ends the function without a value
IataDone_without_last_line(city_name, resp, got) ==
    [ret |-> IF got.ok /\ got.v # FellThrough THEN got ELSE Ok(None),
     net |-> <<[url |-> IataUrl(city_name), resp |-> resp]>>,
     caught |-> IF got.ok THEN "none" ELSE got.e]

\* The end of get_iata_code once the request for city_name, answered with
\* resp, has been made and the try block has given got.
IataDone(city_name, resp, got) ==
    [ret |-> IF got.ok /\ got.v # FellThrough THEN got ELSE Ok(city_name),
     net |-> <<[url |-> IataUrl(city_name), resp |-> resp]>>,
     caught |-> IF got.ok THEN "none" ELSE got.e]

\* Faulty variant: the lookup is made whether or not there is a key
get_iata_code_unguarded(api_key, city_name, resp) ==
    IataDone(city_name, resp, IataLookup(city_name, resp))

\* get_iata_code(city_name) where os.getenv("RAPIDAPI_KEY") is api_key and
\* the provider answers the lookup, when it is made, with resp: the outcome
\* of the call and the requests it made. `except Exception: pass` and the
\* fall-through both end in `return city_name`.
get_iata_code(api_key, city_name, resp) ==
    IF ~Truthy(api_key)
    THEN [ret |-> Ok(city_name), net |-> <<>>, caught |-> "none"]
    ELSE IataDone(city_name, resp, IataLookup(city_name, resp))

----------------------------------------------------------------------------
(* fetch_realtime_flights: the nested-field resolver *)

\* Faulty variant: cur.get(p) without the isinstance check before it
RECURSIVE nested_get_unchecked(_, _)
nested_get_unchecked(d, path) ==
    IF path = <<>> THEN Ok(d)
    ELSE LET GivenCur(cur) ==
                 IF ~cur.ok THEN cur
                 ELSE IF cur.v = None THEN Ok(None)
                 ELSE nested_get_unchecked(cur.v, Tail(path))
         IN  GivenCur(PyGet(d, Head(path), None))

RECURSIVE nested_get(_, _)
nested_get(d, path) ==
    IF path = <<>> THEN Ok(d)
    ELSE IF ~IsDict(d) THEN Ok(None)
    ELSE LET \* cur = cur.get(p); if cur is None: return None
             GivenCur(cur) ==
                 IF ~cur.ok THEN cur
                 ELSE IF cur.v = None THEN Ok(None)
                 ELSE nested_get(cur.v, Tail(path))
         IN  GivenCur(PyGet(d, Head(path), None))

\* The operands of an `or` chain over a flight record f:
\* nested_get(f, *path), f.get(key), or a literal.
Nested(path) == [kind |-> "nested", path |-> path]
Get(key) == [kind |-> "get", key |-> key]
Const(v) == [kind |-> "const", v |-> v]

EvalCand(f, c) ==
    CASE c.kind = "nested" -> nested_get(f, c.path)
      [] c.kind = "get" -> PyGet(f, c.key, None)
      [] c.kind = "const" -> Ok(c.v)

\* Faulty variant: an operand is taken as soon as it is not None
RECURSIVE PyOr_first_not_none(_, _)
PyOr_first_not_none(f, cands) ==
    LET GivenOperand(x) ==
            IF ~x.ok THEN x
            ELSE IF Len(cands) = 1 \/ x.v # None THEN x
            ELSE PyOr_first_not_none(f, Tail(cands))
    IN  GivenOperand(EvalCand(f, Head(cands)))

\* a or b or ... : the first operand that is truthy, else the last one;
\* operands after the chosen one are not evaluated
RECURSIVE PyOr(_, _)
PyOr(f, cands) ==
    LET GivenOperand(x) ==
            IF ~x.ok THEN x
            ELSE IF Len(cands) = 1 \/ Truthy(x.v) THEN x
            ELSE PyOr(f, Tail(cands))
    IN  GivenOperand(EvalCand(f, Head(cands)))

get_arrival_iata(f) ==
    PyOr(f, <<Nested(<<"arrival", "airport", "iata">>),
              Nested(<<"arrival", "iata">>),
              Nested(<<"arrivalIata">>)>>)

----------------------------------------------------------------------------
(* fetch_realtime_flights: the rows of the table *)

NA == Str("N/A")

\* The columns of a row, in the order of the f-string that formats it.
Attrs ==
    <<"airline", "flight_num", "dep_time", "dep_airport", "arr_time",
      "arr_airport", "duration", "status", "terminal", "gate", "aircraft",
      "baggage">>

\* The `or` chain of each column, before its final "N/A".
Candidates(attr) ==
    CASE attr = "airline" ->
           <<Nested(<<"airline", "name">>), Get("airlineName"),
             Nested(<<"operatingAirline", "name">>)>>
      [] attr = "flight_num" ->
           <<Get("flightNumber"), Get("number"), Nested(<<"flight", "number">>)>>
      [] attr = "dep_time" ->
           <<Nested(<<"scheduledTimeLocal">>),
             Nested(<<"departure", "scheduledTimeLocal">>),
             Nested(<<"departure", "actualTimeLocal">>)>>
      [] attr = "dep_airport" ->
           <<Nested(<<"airport", "name">>),
             Nested(<<"departure", "airport", "name">>),
             Nested(<<"departure", "airportName">>)>>
      [] attr = "arr_time" ->
           <<Nested(<<"arrival", "scheduledTimeLocal">>),
             Nested(<<"arrival", "actualTimeLocal">>)>>
      [] attr = "arr_airport" ->
           <<Nested(<<"arrival", "airport", "name">>),
             Nested(<<"arrival", "airportName">>)>>
      [] attr = "duration" ->
           <<Get("flightDuration"), Nested(<<"duration">>)>>
      [] attr = "status" ->
           <<Get("status"), Nested(<<"status", "name">>)>>
      [] attr = "terminal" ->
           <<Get("terminal"), Nested(<<"departure", "terminal">>),
             Nested(<<"arrival", "terminal">>)>>
      [] attr = "gate" ->
           <<Get("gate"), Nested(<<"departure", "gate">>),
             Nested(<<"arrival", "gate">>)>>
      [] attr = "aircraft" ->
           <<Nested(<<"aircraft", "model">>), Get("aircraftModel"),
             Nested(<<"aircraft", "type">>)>>
      [] attr = "baggage" ->
           <<Get("baggageBelt"), Nested(<<"arrival", "baggageBelt">>)>>

\* A column's cell: its candidates in order, then the literal "N/A"
Cell(f, attr) == PyOr(f, Candidates(attr) \o <<Const(NA)>>)

\* The cells of the columns attrs of one record, evaluated left to right,
\* or the exception the first failing column raises.
RECURSIVE CellsOf(_, _)
CellsOf(f, attrs) ==
    IF attrs = <<>> THEN Ok(<<>>)
    ELSE Cons(Cell(f, Head(attrs)), CellsOf(f, Tail(attrs)))

RowCells(f) == CellsOf(f, Attrs)

\* The positions, in Attrs, of the list the `meaningful` count is taken of:
\* airline, flight_num, dep_time, dep_airport, arr_time, arr_airport, aircraft.
KeyColumns == {1, 2, 3, 4, 5, 6, 11}

\* sum(1 for v in [...] if v and v != "N/A")
Meaningful(cells) ==
    Cardinality({i \in KeyColumns : Truthy(cells[i]) /\ ~PyEq(cells[i], NA)})

RowLimit == 5
MeaningfulMin == 3

\* Faulty variant: the slice without its bound
First5_uncapped(items) == items

\* x[:5] of a sequence
First5(items) == SubSeq(items, 1, IF Len(items) < RowLimit THEN Len(items) ELSE RowLimit)

RECURSIVE JoinCells(_)
JoinCells(cells) ==
    IF cells = <<>> THEN ""
    ELSE " " \o PyStr(Head(cells)) \o " |" \o JoinCells(Tail(cells))

RowText(cells) == "|" \o JoinCells(cells) \o "\n"

RECURSIVE RowsText(_)
RowsText(rs) == IF rs = <<>> THEN "" ELSE RowText(Head(rs)) \o RowsText(Tail(rs))

FlightsHeader(origin_iata, dest_iata, departure_date) ==
    "### Real-time flights from " \o PyStr(origin_iata) \o " to "
        \o PyStr(dest_iata) \o " on " \o PyStr(departure_date) \o "\n"
    \o "| Airline | Flight | Departure | Departure Airport | Arrival | Arrival Airport | Duration | Status | Terminal | Gate | Aircraft | Baggage |\n"
    \o "|---|---|---|---|---|---|---|---|---|---|---|---|\n"

Advisory ==
    "\n> Note: The flight API response is missing many fields; try updating your RapidAPI key or check the API quota."

NoFlights == "No real-time flights found."

----------------------------------------------------------------------------
(* fetch_realtime_flights *)

\* The keys of a dict, in some order, as Python strings
RECURSIVE KeysOf(_)
KeysOf(ks) ==
    IF ks = {} THEN <<>>
    ELSE LET k == CHOOSE x \in ks : TRUE IN <<Str(k)>> \o KeysOf(ks \ {k})

\* The items `for x in xs` visits: the elements of a list, the characters
\* of a str, the keys of a dict; nothing else here is iterable.
Iterate(xs) ==
    CASE Tag(xs) = "list" -> Ok(Val(xs))
      [] Tag(xs) = "str" -> Ok([i \in 1..Len(Val(xs)) |-> Str(SubSeq(Val(xs), i, i))])
      [] Tag(xs) = "dict" -> Ok(KeysOf(DOMAIN Val(xs)))
      [] OTHER -> Raise("TypeError")

\* The items of xs[:5]: a list and a str can be sliced, a dict cannot
\* (the slice is taken for a key), nor can anything else.
Slice5(xs) ==
    CASE Tag(xs) = "list" -> Ok(First5(Val(xs)))
      [] Tag(xs) = "str" ->
           Ok(First5([i \in 1..Len(Val(xs)) |-> Str(SubSeq(Val(xs), i, i))]))
      [] OTHER -> Raise("TypeError")

\* meaningful = 0 before the loop; every row assigns it anew
LastMeaningful(rs) == IF rs = <<>> THEN 0 ELSE Meaningful(rs[Len(rs)])

\* [f for f in items if get_arrival_iata(f) == dest_iata]
RECURSIVE Matching(_, _)
Matching(items, dest_iata) ==
    IF items = <<>> THEN Ok(<<>>)
    ELSE LET Keep(a, rest) ==
                 IF ~a.ok THEN a
                 ELSE IF ~rest.ok THEN rest
                 ELSE IF PyEq(a.v, dest_iata) THEN Ok(<<Head(items)>> \o rest.v)
                 ELSE rest
         IN  Keep(get_arrival_iata(Head(items)),
                  Matching(Tail(items), dest_iata))

\* for f in filtered[:5]: the rows of the records fs, in order
RECURSIVE RowsOf(_)
RowsOf(fs) ==
    IF fs = <<>> THEN Ok(<<>>)
    ELSE Cons(RowCells(Head(fs)), RowsOf(Tail(fs)))

\* Faulty variant: no fallback, the matching records whatever their number
Filtered_no_fallback(flights, matching) == Ok(matching)

\* Lines 136-138: the matching records, or when there is none the first
\* five of the list
Filtered(flights, matching) ==
    IF matching = <<>> THEN Slice5(flights) ELSE Ok(matching)

\* Lines 115-174, inside the try block: the text returned and the rows
\* formatted into it, or the exception raised.
NormalizeFlights(data, origin_iata, dest_iata, departure_date) ==
    LET \* lines 140-174: the header, the rows, the advisory
        Table(rs) ==
            FlightsHeader(origin_iata, dest_iata, departure_date)
                \o RowsText(rs)
        GivenRows(rs) ==
            IF ~rs.ok THEN rs
            ELSE Ok([text |-> Str(IF LastMeaningful(rs.v) < MeaningfulMin
                                  THEN Table(rs.v) \o Advisory
                                  ELSE Table(rs.v)),
                     rows |-> rs.v])
        \* for f in filtered[:5]
        GivenFiltered(filtered) ==
            IF ~filtered.ok THEN filtered
            ELSE GivenRows(RowsOf(First5(filtered.v)))
        \* filtered = [...]; if not filtered: filtered = flights[:5]
        GivenMatching(flights, matching) ==
            IF ~matching.ok THEN matching
            ELSE GivenFiltered(Filtered(flights, matching.v))
        GivenItems(flights, items) ==
            IF ~items.ok THEN items
            ELSE GivenMatching(flights, Matching(items.v, dest_iata))
        \* flights = data.get("departures", []); if not flights: return
        GivenFlights(flights) ==
            IF ~flights.ok THEN flights
            ELSE IF ~Truthy(flights.v)
                 THEN Ok([text |-> Str(NoFlights), rows |-> <<>>])
            ELSE GivenItems(flights.v, Iterate(flights.v))
    IN  GivenFlights(PyGet(data, "departures", List(<<>>)))

FlightsUrl(origin_iata) ==
    "https://aerodatabox.p.rapidapi.com/flights/airports/iata/"
        \o PyStr(origin_iata)
        \o "?offsetMinutes=-120&durationMinutes=720&withLeg=true&direction=Both&withCancelled=true"
        \o "&withCodeshared=true&withCargo=true&withPrivate=true&withLocation=false"

ErrorNote(e) == "[API error: " \o e \o "] Falling back to mock data.\n"

\* A search query: the arguments of fetch_realtime_flights.
Query(origin, destination, departure_date, return_date, adults) ==
    [origin |-> origin, destination |-> destination,
     departure_date |-> departure_date, return_date |-> return_date,
     adults |-> adults]

MockOf(q) ==
    mock_search_flights(q.origin, q.destination, q.departure_date,
                        q.return_date, q.adults)

\* Faulty variant: no except clause, the exception reaches the caller
FlightsExcept_propagating(q, body) ==
    IF body.ok
    THEN [ret |-> Ok(body.v.text), rows |-> body.v.rows, caught |-> "none"]
    ELSE [ret |-> body, rows |-> <<>>, caught |-> "none"]

\* Lines 175-176: what the call returns when the try block has given body,
\* its own return value or, after an exception, the annotated mock
FlightsExcept(q, body) ==
    IF body.ok
    THEN [ret |-> Ok(body.v.text), rows |-> body.v.rows, caught |-> "none"]
    ELSE LET Noted(mock) ==
                 IF ~mock.ok THEN mock
                 ELSE Ok(Str(ErrorNote(body.e) \o Val(mock.v)))
         IN  [ret |-> Noted(MockOf(q)), rows |-> <<>>, caught |-> body.e]

\* Faulty variant: the records are filtered by the destination's code for
\* one adult only, by the origin's for a larger party
FlightsTry_by_party(q, origin_iata, dest_iata, resp) ==
    LET GivenData(data) ==
            IF ~data.ok THEN data
            ELSE NormalizeFlights(data.v, origin_iata,
                                  IF q.adults = Num(1) THEN dest_iata
                                  ELSE origin_iata,
                                  q.departure_date)
    IN  FlightsExcept(q, GivenData(GetJson(resp)))

\* The try block of fetch_realtime_flights and its except clause: the
\* request, the normalizer, and on any exception the annotated mock.
FlightsTry(q, origin_iata, dest_iata, resp) ==
    LET GivenData(data) ==
            IF ~data.ok THEN data
            ELSE NormalizeFlights(data.v, origin_iata, dest_iata,
                                  q.departure_date)
    IN  FlightsExcept(q, GivenData(GetJson(resp)))

\* fetch_realtime_flights(**q) where os.getenv("RAPIDAPI_KEY") is api_key
\* and the provider answers the two lookups and the flights request, when
\* they are made, with r1, r2 and r3: the outcome, the requests made and
\* the rows formatted.
fetch_realtime_flights(api_key, q, r1, r2, r3) ==
    LET \* lines 102-176: the request and what the try block makes of it
        Fetched(o, d, done) ==
            [ret |-> done.ret,
             net |-> o.net \o d.net
                       \o <<[url |-> FlightsUrl(o.ret.v), resp |-> r3]>>,
             rows |-> done.rows,
             caught |-> done.caught]
        \* lines 99-100: if not api_key: return mock_search_flights(...)
        Resolved(o, d) ==
            IF ~Truthy(api_key)
            THEN [ret |-> MockOf(q), net |-> o.net \o d.net, rows |-> <<>>,
                  caught |-> "none"]
            ELSE Fetched(o, d, FlightsTry(q, o.ret.v, d.ret.v, r3))
    IN  Resolved(get_iata_code(api_key, q.origin, r1),
                 get_iata_code(api_key, q.destination, r2))

----------------------------------------------------------------------------
(* serpapi_search_hotels *)

UpperCase == "ABCDEFGHIJKLMNOPQRSTUVWXYZ"
LowerCase == "abcdefghijklmnopqrstuvwxyz"

\* str.lower(), of ASCII text
LowerChar(c) ==
    IF \E i \in 1..Len(UpperCase) : SubSeq(UpperCase, i, i) = c
    THEN LET i == CHOOSE j \in 1..Len(UpperCase) : SubSeq(UpperCase, j, j) = c
         IN  SubSeq(LowerCase, i, i)
    ELSE c

RECURSIVE Lower(_)
Lower(s) ==
    IF s = "" THEN ""
    ELSE LowerChar(SubSeq(s, 1, 1)) \o Lower(SubSeq(s, 2, Len(s)))

\* needle in s, of two strs
Contains(needle, s) ==
    \E i \in 1..(Len(s) - Len(needle) + 1) :
        SubSeq(s, i, i + Len(needle) - 1) = needle

\* key in x: a key of a dict, an element of a list, a substring of a str;
\* anything else is no container
In(key, x) ==
    CASE Tag(x) = "dict" -> Ok(key \in DOMAIN Val(x))
      [] Tag(x) = "list" -> Ok(\E i \in DOMAIN Val(x) : PyEq(Val(x)[i], Str(key)))
      [] Tag(x) = "str" -> Ok(Contains(key, Val(x)))
      [] OTHER -> Raise("TypeError")

\* x[key], key a str: only a dict can be indexed by it
Subscript(x, key) ==
    IF ~IsDict(x) THEN Raise("TypeError")
    ELSE IF key \in DOMAIN Val(x) THEN Ok(Val(x)[key]) ELSE Raise("KeyError")

\* Lines 28-33: the hotels taken from the local_results section
LocalHotels(data) ==
    LET GivenLocal(lr) ==
            IF ~lr.ok THEN lr
            ELSE IF Tag(lr.v) = "list" THEN lr
            ELSE IF IsDict(lr.v) /\ "places" \in DOMAIN Val(lr.v)
                 THEN Ok(Val(lr.v)["places"])
            ELSE Ok(List(<<>>))
        GivenHas(has) ==
            IF ~has.ok THEN has
            ELSE IF ~has.v THEN Ok(List(<<>>))
            ELSE GivenLocal(Subscript(data, "local_results"))
    IN  GivenHas(In("local_results", data))

\* item.get(k, "N/A") of an item known to be a dict
Field(item, k) == PyGet(item, k, NA).v

\* Faulty variant: every organic result is taken, whatever its title
ScanItem_any_title(hotels, item) ==
    IF ~IsDict(item) THEN Raise("AttributeError")
    ELSE Ok(List(Append(Val(hotels),
                 Dict([title |-> Field(item, "title"),
                       address |-> Field(item, "address"),
                       rating |-> Field(item, "rating"),
                       reviews |-> Field(item, "reviews"),
                       price |-> Field(item, "price"),
                       link |-> Field(item, "link")]))))

\* Lines 38-47, one organic result: the hotels list after it
ScanItem(hotels, item) ==
    LET \* "hotel" in title or "inn" in title, title lowered
        Named(title) == Contains("hotel", title) \/ Contains("inn", title)
        GivenTitle(title) ==
            IF ~title.ok THEN title
            ELSE IF Tag(title.v) # "str" THEN Raise("AttributeError")
            ELSE IF ~Named(Lower(Val(title.v))) THEN Ok(hotels)
            ELSE IF Tag(hotels) # "list" THEN Raise("AttributeError")
            ELSE Ok(List(Append(Val(hotels),
                         Dict([title |-> Field(item, "title"),
                               address |-> Field(item, "address"),
                               rating |-> Field(item, "rating"),
                               reviews |-> Field(item, "reviews"),
                               price |-> Field(item, "price"),
                               link |-> Field(item, "link")]))))
    IN  GivenTitle(PyGet(item, "title", Str("")))

\* for item in data["organic_results"]
RECURSIVE ScanOrganic(_, _)
ScanOrganic(hotels, items) ==
    IF items = <<>> THEN Ok(hotels)
    ELSE LET GivenNext(next) ==
                 IF ~next.ok THEN next ELSE ScanOrganic(next.v, Tail(items))
         IN  GivenNext(ScanItem(hotels, Head(items)))

\* Faulty variant: the organic results are scanned whatever the local
\* results hold
WithOrganic_always_scanning(data, hotels) ==
    LET GivenItems(items) ==
            IF ~items.ok THEN items ELSE ScanOrganic(hotels, items.v)
        GivenOrganic(organic) ==
            IF ~organic.ok THEN organic
            ELSE GivenItems(Iterate(organic.v))
        GivenHas(has) ==
            IF ~has.ok THEN has
            ELSE IF ~has.v THEN Ok(hotels)
            ELSE GivenOrganic(Subscript(data, "organic_results"))
    IN  GivenHas(In("organic_results", data))

\* Lines 36-47: the fallback to the organic results
WithOrganic(data, hotels) ==
    IF Truthy(hotels) THEN Ok(hotels)
    ELSE LET GivenItems(items) ==
                 IF ~items.ok THEN items ELSE ScanOrganic(hotels, items.v)
             GivenOrganic(organic) ==
                 IF ~organic.ok THEN organic
                 ELSE GivenItems(Iterate(organic.v))
             GivenHas(has) ==
                 IF ~has.ok THEN has
                 ELSE IF ~has.v THEN Ok(hotels)
                 ELSE GivenOrganic(Subscript(data, "organic_results"))
         IN  GivenHas(In("organic_results", data))

\* Lines 57-65: the cells of one hotel's row
HotelCells(h) ==
    LET \* link = h.get("link") or "N/A"; if link != "N/A": link = ...
        Linked(link) ==
            IF ~PyEq(link, NA)
            THEN Str("[View](" \o PyStr(link) \o ")") ELSE link
        Link(got) == Linked(IF Truthy(got) THEN got ELSE NA)
        GivenName(name) ==
            IF ~name.ok THEN name
            ELSE Ok(<<name.v, Field(h, "address"), Field(h, "rating"),
                      Field(h, "reviews"), Field(h, "price"),
                      Link(PyGet(h, "link", None).v)>>)
    IN  GivenName(PyGet(h, "title", NA))

\* for h in hotels[:5]
RECURSIVE HotelRows(_)
HotelRows(hs) ==
    IF hs = <<>> THEN Ok(<<>>)
    ELSE Cons(HotelCells(Head(hs)), HotelRows(Tail(hs)))

HotelsHeader ==
    "### Top Hotels (Google Hotels via SerpAPI)\n"
    \o "| Name | Address | Rating | Reviews | Price | Link |\n"
    \o "|---|---|---|---|---|---|\n"

NoHotels == "No hotels found for your search."

\* json.dumps(data, indent=2)[:2000]: the text of the dump is not modelled
JsonDumps(data) == "<json>"

DebugInfo(data) ==
    "\n\n<details><summary>Debug: Raw SerpAPI response</summary>\n<pre>"
        \o JsonDumps(data) \o "...</pre></details>"

\* Lines 23-66, the try block: the text returned and the rows formatted
\* into it, or the exception raised.
HotelsBody(resp) ==
    LET \* lines 53-66: the header and the rows
        GivenRows(rs) ==
            IF ~rs.ok THEN rs
            ELSE Ok([text |-> Str(HotelsHeader \o RowsText(rs.v)),
                     rows |-> rs.v])
        \* for h in hotels[:5]
        GivenShown(shown) ==
            IF ~shown.ok THEN shown ELSE GivenRows(HotelRows(shown.v))
        \* lines 49-51: if not hotels: return the message and the dump
        GivenHotels(data, hotels) ==
            IF ~hotels.ok THEN hotels
            ELSE IF ~Truthy(hotels.v)
                 THEN Ok([text |-> Str(NoHotels \o DebugInfo(data)),
                          rows |-> <<>>])
            ELSE GivenShown(Slice5(hotels.v))
        GivenLocal(data, local) ==
            IF ~local.ok THEN local
            ELSE GivenHotels(data, WithOrganic(data, local.v))
        GivenData(data) ==
            IF ~data.ok THEN data
            ELSE GivenLocal(data.v, LocalHotels(data.v))
    IN  GivenData(GetJson(resp))

SerpApiError(e) == "[SerpAPI error: " \o e \o "]"

SerpApiUrl == "https://serpapi.com/search.json"

\* Faulty variant: no except clause, the exception reaches the caller
HotelsExcept_propagating(destination, resp, body) ==
    [ret |-> IF body.ok THEN Ok(body.v.text) ELSE body,
     net |-> <<[url |-> SerpApiUrl, q |-> "hotels in " \o PyStr(destination),
                resp |-> resp]>>,
     rows |-> IF body.ok THEN body.v.rows ELSE <<>>,
     caught |-> "none"]

\* Lines 67-68: what the call returns when the try block has given body,
\* its own return value or, after an exception, the error text
HotelsExcept(destination, resp, body) ==
    [ret |-> IF body.ok THEN Ok(body.v.text)
             ELSE Ok(Str(SerpApiError(body.e))),
     net |-> <<[url |-> SerpApiUrl, q |-> "hotels in " \o PyStr(destination),
                resp |-> resp]>>,
     rows |-> IF body.ok THEN body.v.rows ELSE <<>>,
     caught |-> IF body.ok THEN "none" ELSE body.e]

\* serpapi_search_hotels(destination, ...) where the provider answers the
\* request with resp: the outcome, the request made and the rows formatted.
\* SERPAPI_KEY has a default, so the request is always made.
serpapi_search_hotels(destination, resp) ==
    HotelsExcept(destination, resp, HotelsBody(resp))

----------------------------------------------------------------------------
(* The inputs: what callers pass and what the providers answer *)

\* os.getenv("RAPIDAPI_KEY"): unset, set to the empty string, or set
KeyValues == {None, Str(""), Str("rapid-key")}

\* What app.py passes: texts, a "%Y-%m-%d" text or None, a party count
Queries ==
    {Query(Str("NYC"), Str("Paris"), Str("2024-06-01"), None, Num(1)),
     Query(Str("NYC"), Str("Paris"), Str("2024-06-01"), Str("2024-06-08"),
           Num(2))}

\* The airport search's answer with one item carrying an IATA code
Found(code) == Http(200, Dict([items |-> List(<<Dict([iata |-> Str(code)])>>)]))

\* The provider's directory
Airport(city_name) ==
    CASE city_name = Str("NYC") -> "JFK"
      [] city_name = Str("Paris") -> "CDG"
      [] OTHER -> "XXX"

\* What the airport search can answer a lookup of city_name with
LookupAnswers(city_name) == {ConnFail, Found(Airport(city_name))}

\* Raw provider records of the departures list, of the shapes the
\* normalizer probes for
FullRecord ==
    Dict([airline |-> Dict([name |-> Str("Air X")]),
          number |-> Str("AX100"),
          departure |-> Dict([scheduledTimeLocal |-> Str("08:00"),
                              airport |-> Dict([name |-> Str("JFK Intl")])]),
          arrival |-> Dict([scheduledTimeLocal |-> Str("20:00"),
                            airport |-> Dict([iata |-> Str("CDG"),
                                              name |-> Str("Paris CDG")])]),
          aircraft |-> Dict([model |-> Str("A320")]),
          status |-> Str("Scheduled")])

SparseRecord ==
    Dict([arrival |-> Dict([iata |-> Str("LHR")]),
          arrivalIata |-> Str("CDG"),
          airline |-> Str("Air Y"),
          airlineName |-> Str("Air Y"),
          flightNumber |-> Str("AY7"),
          number |-> Str("AY8")])

FlatRecord ==
    Dict([arrivalIata |-> Str("CDG"),
          operatingAirline |-> Dict([name |-> Str("Air Z")]),
          flight |-> Dict([number |-> Str("AZ3")]),
          departure |-> Dict([actualTimeLocal |-> Str("09:30"),
                              scheduledTimeLocal |-> Str("")]),
          arrival |-> None])

\* A JSON null where a record is expected
NullRecord == None

\* The records of the long lists, and those of the short ones
Records == {FullRecord, SparseRecord}
OddRecords == Records \cup {FlatRecord, NullRecord}

MaxFlights == 6
MaxOdd == 2

RECURSIVE SeqsUpTo(_, _)
SeqsUpTo(S, n) ==
    IF n = 0 THEN {<<>>}
    ELSE LET shorter == SeqsUpTo(S, n - 1) IN
         shorter \cup {Append(s, x) : s \in {t \in shorter : Len(t) = n - 1}, x \in S}

Departures(fs) == Http(200, Dict([departures |-> List(fs)]))

\* What the departures endpoint can answer: a list of records, or a
\* failure of the network, the status, the body or the payload's shape
FlightAnswers ==
    {Departures(fs) : fs \in SeqsUpTo(Records, MaxFlights)
                              \cup SeqsUpTo(OddRecords, MaxOdd)}
    \cup {ConnFail, Http(500, NotJson), Http(200, NotJson),
          Http(200, List(<<>>)), Http(200, EmptyDict),
          Http(200, Dict([departures |-> None])),
          Http(200, Dict([departures |-> Str("xy")]))}

----------------------------------------------------------------------------
(* The language model (mistralai) and what is built on it *)

\* The text the model answers with, as the pieces json.loads and the
\* brace search tell apart: prose without braces, the text of one JSON
\* value (an object, or a value that holds no object), a lone opening
\* brace, a lone closing brace.
Prose(t) == [kind |-> "prose", text |-> t, value |-> None]
Json(t, v) == [kind |-> "json", text |-> t, value |-> v]
OpenBrace == [kind |-> "open", text |-> "{", value |-> None]
CloseBrace == [kind |-> "close", text |-> "}", value |-> None]

RECURSIVE Join(_)
Join(segs) == IF segs = <<>> THEN "" ELSE Head(segs).text \o Join(Tail(segs))

\* The str the pieces make
Text(segs) == Str(Join(segs))

\* get_mistral_client(): raises without a key, and when mistralai cannot
\* be imported
get_mistral_client(api_key, sdk) ==
    IF ~Truthy(api_key) THEN Raise("Exception")
    ELSE IF ~sdk THEN Raise("ImportError")
    ELSE Ok([client |-> TRUE])

\* TravelPlanner(): self.llm is None when get_llm() raises; self.chain is
\* set only with LangChain present and an llm
TravelPlanner(api_key, sdk, langchain) ==
    LET Built(llm) == [sdk |-> sdk, llm |-> llm, chain |-> langchain /\ llm]
    IN  Built(get_mistral_client(api_key, sdk).ok)

MistralChat == "MistralClient.chat"

\* Faulty variant: a request that fails is sent once more
CallLlm_retrying(prompt, answer) ==
    [ret |-> IF answer.ok THEN Ok(Text(answer.v)) ELSE answer,
     net |-> IF answer.ok
             THEN <<[url |-> MistralChat, q |-> prompt, resp |-> answer]>>
             ELSE <<[url |-> MistralChat, q |-> prompt, resp |-> answer],
                    [url |-> MistralChat, q |-> prompt, resp |-> answer]>>]

\* llm(prompt): one chat request, answered with the text of the reply or
\* with an exception
CallLlm(prompt, answer) ==
    [ret |-> IF answer.ok THEN Ok(Text(answer.v)) ELSE answer,
     net |-> <<[url |-> MistralChat, q |-> prompt, resp |-> answer]>>]

Unavailable ==
    "I can't access the AI right now, but I can help with basic travel info."

\* TravelPlanner.chat
chat(llm, prompt, answer) ==
    LET Tried(said) ==
            [ret |-> IF said.ret.ok THEN said.ret ELSE Ok(Str(Unavailable)),
             net |-> said.net,
             caught |-> IF said.ret.ok THEN "none" ELSE said.ret.e]
    IN  IF ~llm
        THEN [ret |-> Ok(Str(Unavailable)), net |-> <<>>, caught |-> "none"]
        ELSE Tried(CallLlm(
                 "You are a helpful travel assistant. Answer the user's question about travel.\nUser: "
                     \o PyStr(prompt) \o "\nAssistant:", answer))

GenericTips ==
    "Pack light, check local weather, and keep digital copies of your documents."

\* TravelPlanner.get_travel_recommendations: the call of the model is not
\* inside a try
get_travel_recommendations(llm, query, answer) ==
    LET Said(said) == [ret |-> said.ret, net |-> said.net, caught |-> "none"]
    IN  IF ~llm
        THEN [ret |-> Ok(Str(GenericTips)), net |-> <<>>, caught |-> "none"]
        ELSE Said(CallLlm("Give concise travel tips or recommendations for: "
                              \o PyStr(query), answer))

\* The four fields of the itinerary and insights forms
Trip(destination, duration, budget, interests) ==
    [destination |-> destination, duration |-> duration, budget |-> budget,
     interests |-> interests]

\* get_mistral_insights(**trip)
get_mistral_insights(api_key, sdk, trip, answer) ==
    LET Said(said) == [ret |-> said.ret, net |-> said.net, caught |-> "none"]
        GivenClient(client) ==
            IF ~client.ok THEN [ret |-> client, net |-> <<>>, caught |-> "none"]
            ELSE Said(CallLlm(
                     "You are a travel expert. Create comprehensive travel insights for a trip to "
                         \o PyStr(trip.destination) \o " for " \o PyStr(trip.duration)
                         \o " with a " \o PyStr(trip.budget) \o " budget. Interests: "
                         \o PyStr(trip.interests) \o ".\n"
                         \o "Respond in markdown with:\n- Top attractions\n- Local tips\n- Best time to visit\n- Estimated daily budget\n- Safety and cultural notes\n",
                     answer))
    IN  GivenClient(get_mistral_client(api_key, sdk))

----------------------------------------------------------------------------
(* app.py: the chat page and the AI insights page *)

Message(role, content) == [role |-> role, content |-> content]

Apology(e) == "I apologize, but I encountered an error: " \o e

\* Faulty variant: the prompt is kept, the reply is not
ChatTurn_user_only(messages, prompt, said) ==
    Append(messages, Message("user", prompt))

\* Lines 292-309: the user's message, then the assistant's: the reply, or
\* the apology when travel_planner.chat raised
ChatTurn(messages, prompt, said) ==
    Append(Append(messages, Message("user", prompt)),
           Message("assistant", IF said.ret.ok THEN said.ret.v
                                ELSE Str(Apology(said.ret.e))))

\* chat_page() run with the prompt submitted: what the assistant said and
\* st.session_state.messages after it
chat_page(messages, llm, prompt, answer) ==
    LET Replied(said) ==
            [ret |-> said.ret, net |-> said.net, caught |-> said.caught,
             messages |-> ChatTurn(messages, prompt, said)]
    IN  Replied(chat(llm, prompt, answer))

\* Lines 404-410: st.session_state.ai_insights.append({...})
Remember(ai_insights, entry) == Append(ai_insights, entry)

\* How many entries the page shows: ai_insights[-3:]
ShownInsights == 3

\* show_ai_insights_page() run with the button pressed: the insights, or
\* nothing when a field is empty or the request raised, and
\* st.session_state.ai_insights after it
show_ai_insights_page(ai_insights, api_key, p, trip, now, answer) ==
    LET Shown(got) ==
            IF got.ret.ok
            THEN [ret |-> got.ret, net |-> got.net, caught |-> "none",
                  ai_insights |->
                      Remember(ai_insights,
                               [destination |-> trip.destination,
                                insights |-> got.ret.v, timestamp |-> now])]
            ELSE [ret |-> Ok(None), net |-> got.net, caught |-> got.ret.e,
                  ai_insights |-> ai_insights]
    IN  IF ~(Truthy(trip.destination) /\ Truthy(trip.duration)
               /\ Truthy(trip.budget))
        THEN [ret |-> Ok(None), net |-> <<>>, caught |-> "none",
              ai_insights |-> ai_insights]
        ELSE IF Truthy(api_key)
        THEN Shown(get_mistral_insights(api_key, p.sdk, trip, answer))
        ELSE Shown(get_travel_recommendations(p.llm,
                 Str("Create comprehensive travel insights for "
                         \o PyStr(trip.destination) \o " for "
                         \o PyStr(trip.duration) \o " with "
                         \o PyStr(trip.budget) \o " budget interested in "
                         \o PyStr(trip.interests)), answer))

----------------------------------------------------------------------------
(* TravelPlanner.generate_itinerary and get_travel_insights_realtime *)

Least(S) == CHOOSE i \in S : \A j \in S : i <= j
Greatest(S) == CHOOSE i \in S : \A j \in S : j <= i

\* json.loads(text): the value of a text that is one JSON value, "{}"
\* included
JsonLoads(segs) ==
    IF Len(segs) = 1 /\ segs[1].kind = "json" THEN Ok(segs[1].value)
    ELSE IF segs = <<OpenBrace, CloseBrace>> THEN Ok(EmptyDict)
    ELSE Raise("JSONDecodeError")

\* m is None: a match is never the empty text
NoMatch == <<>>

\* Faulty variant: the search stops at the first closing brace
BraceSearch_shortest(segs) ==
    LET Opens(i) == segs[i].kind = "open"
                       \/ (segs[i].kind = "json" /\ IsDict(segs[i].value))
        Closes(first, j) ==
            \/ segs[j].kind = "close" /\ j > first
            \/ segs[j].kind = "json" /\ IsDict(segs[j].value) /\ j >= first
        To(first, closing) ==
            IF closing = {} THEN NoMatch
            ELSE SubSeq(segs, first, Least(closing))
        From(first) == To(first, {j \in DOMAIN segs : Closes(first, j)})
        Among(opening) == IF opening = {} THEN NoMatch ELSE From(Least(opening))
    IN  Among({i \in DOMAIN segs : Opens(i)})

\* re.search(r"\{.*\}", output, re.DOTALL).group(0): the text from the
\* first opening brace to the last closing brace after it (.* is greedy),
\* NoMatch when there is none
BraceSearch(segs) ==
    LET Opens(i) == segs[i].kind = "open"
                       \/ (segs[i].kind = "json" /\ IsDict(segs[i].value))
        Closes(first, j) ==
            \/ segs[j].kind = "close" /\ j > first
            \/ segs[j].kind = "json" /\ IsDict(segs[j].value) /\ j >= first
        To(first, closing) ==
            IF closing = {} THEN NoMatch
            ELSE SubSeq(segs, first, Greatest(closing))
        From(first) == To(first, {j \in DOMAIN segs : Closes(first, j)})
        Among(opening) == IF opening = {} THEN NoMatch ELSE From(Least(opening))
    IN  Among({i \in DOMAIN segs : Opens(i)})

\* Lines 365-372 and 384-388: json.loads(output), and when it raises
\* json.loads of what the brace search finds, None when it finds nothing
ParseOutput(output) ==
    LET Second(m) == IF m = NoMatch THEN Ok(None) ELSE JsonLoads(m)
        First(direct) == IF direct.ok THEN direct ELSE Second(BraceSearch(output))
    IN  First(JsonLoads(output))

\* The prompt of the chain (lines 343-347) and that of the bare llm
\* (lines 378-381)
ItineraryPrompt(chain, trip) ==
    IF chain
    THEN "You are a travel expert. Create a detailed travel itinerary as JSON for a trip to "
             \o PyStr(trip.destination) \o " for " \o PyStr(trip.duration)
             \o " with a " \o PyStr(trip.budget) \o " budget. Interests: "
             \o PyStr(trip.interests) \o ".\n"
             \o "Return strictly valid JSON with keys: destination, duration, total_budget, days (list of objects with day, activities, meals, accommodation, budget_estimate), additional_tips."
    ELSE "You are a travel expert. Create a detailed travel itinerary for a trip to "
             \o PyStr(trip.destination) \o " for " \o PyStr(trip.duration)
             \o " with a " \o PyStr(trip.budget) \o " budget. Interests: "
             \o PyStr(trip.interests) \o ".\n"
             \o "Respond in JSON with fields: destination, duration, total_budget, days (list), additional_tips."

\* Lines 357-391: data, the requests made for it and the exception the
\* outer except clause caught
AskModel(p, trip, answer) ==
    LET Parsed(said, data) ==
            [data |-> IF data.ok THEN data.v ELSE None, net |-> said.net,
             caught |-> IF data.ok THEN "none" ELSE data.e]
        Said(said) ==
            IF ~said.ret.ok
            THEN [data |-> None, net |-> said.net, caught |-> said.ret.e]
            ELSE Parsed(said, ParseOutput(answer.v))
    IN  IF p.chain \/ p.llm
        THEN Said(CallLlm(ItineraryPrompt(p.chain, trip), answer))
        ELSE [data |-> None, net |-> <<>>, caught |-> "none"]

\* DayPlan(day=d.get("day"), ...) of a dict, anything else as it is
DayPlanOf(d) ==
    IF ~IsDict(d) THEN d
    ELSE [dayplan |->
             [day |-> PyGet(d, "day", None).v,
              activities |-> PyGet(d, "activities", List(<<>>)).v,
              meals |-> PyGet(d, "meals", List(<<>>)).v,
              accommodation |-> PyGet(d, "accommodation", Str("")).v,
              budget_estimate |-> PyGet(d, "budget_estimate", Str("")).v]]

\* TravelItinerary(...): `for d in (days or [])` raises on days that are
\* truthy and cannot be iterated
TravelItinerary(destination, duration, total_budget, days, additional_tips, hotels, flights) ==
    LET Made(ds) ==
            IF ~ds.ok THEN ds
            ELSE Ok([itinerary |->
                        [destination |-> destination, duration |-> duration,
                         total_budget |-> total_budget,
                         days |-> [i \in DOMAIN ds.v |-> DayPlanOf(ds.v[i])],
                         additional_tips |-> additional_tips,
                         hotels |-> hotels, flights |-> flights]])
    IN  Made(IF Truthy(days) THEN Iterate(days) ELSE Ok(<<>>))

\* Lines 394-400: the day of the synthetic itinerary numbered i
SyntheticDay(destination, i) ==
    Dict([day |-> Num(i),
          activities |-> List(<<Str("Sightseeing in " \o PyStr(destination)),
                                Str("Local meal")>>),
          meals |-> List(<<Str("Breakfast"), Str("Lunch"), Str("Dinner")>>),
          accommodation |-> Str("Central hotel"),
          budget_estimate |-> Str("$50-$150")])

\* Lines 393-432: the itinerary made of data, of the hotels and of the
\* flights, or the exception raised
ItineraryOf(trip, data, hotels, flights) ==
    LET Field5(dest, dur, total, days, tips) ==
            IF ~dest.ok THEN dest
            ELSE TravelItinerary(dest.v, dur.v, total.v, days.v, tips.v,
                                 hotels, flights)
    IN  IF ~Truthy(data)
        THEN TravelItinerary(trip.destination, trip.duration, Str("$150-450"),
                 List([i \in 1..3 |-> SyntheticDay(trip.destination, i)]),
                 List(<<Str("Carry a reusable water bottle.")>>),
                 hotels, flights)
        ELSE Field5(PyGet(data, "destination", trip.destination),
                    PyGet(data, "duration", trip.duration),
                    PyGet(data, "total_budget", Str("$150-450")),
                    PyGet(data, "days", List(<<>>)),
                    PyGet(data, "additional_tips", List(<<>>)))

\* x = None; try: x = f(...) except Exception: x = None
OrNone(done) == IF done.ret.ok THEN done.ret.v ELSE None

\* TravelPlanner.generate_itinerary(**trip) on the day today, where the
\* model answers with answer, the hotel search with h, the two airport
\* lookups and the flights request with r1, r2, r3
generate_itinerary(p, api_key, trip, today, answer, h, r1, r2, r3) ==
    LET Done(asked, hotels, flights) ==
            [ret |-> ItineraryOf(trip, asked.data, OrNone(hotels), OrNone(flights)),
             net |-> asked.net \o hotels.net \o flights.net,
             caught |-> asked.caught]
    IN  Done(AskModel(p, trip, answer),
             serpapi_search_hotels(trip.destination, h),
             fetch_realtime_flights(api_key,
                 Query(Str("YourCity"), trip.destination, today, None, Num(1)),
                 r1, r2, r3))

NoInsights(e) == "No realtime insights available (fallback): " \o e

\* Faulty variant: the planner's recommendations are asked for first
get_travel_insights_realtime_planner_first(api_key, p, trip, a1, a2) ==
    LET Fallback(tips) ==
            [ret |-> IF tips.ret.ok THEN tips.ret
                     ELSE Ok(Str(NoInsights(tips.ret.e))),
             net |-> tips.net,
             caught |-> IF tips.ret.ok THEN "none" ELSE tips.ret.e]
    IN  Fallback(get_travel_recommendations(p.llm,
                     Str(PyStr(trip.destination) \o " (" \o PyStr(trip.duration)
                             \o ") - budget: " \o PyStr(trip.budget)
                             \o "; interests: " \o PyStr(trip.interests)), a2))

\* get_travel_insights_realtime(**trip) where the model answers the
\* insights prompt with a1 and the recommendations prompt with a2 (the
\* dash of the query is written "-")
get_travel_insights_realtime(api_key, p, trip, a1, a2) ==
    LET Fallback(before, tips) ==
            [ret |-> IF tips.ret.ok THEN tips.ret
                     ELSE Ok(Str(NoInsights(tips.ret.e))),
             net |-> before \o tips.net,
             caught |-> IF tips.ret.ok THEN "none" ELSE tips.ret.e]
        Second(before) ==
            Fallback(before,
                get_travel_recommendations(p.llm,
                     Str(PyStr(trip.destination) \o " (" \o PyStr(trip.duration)
                             \o ") - budget: " \o PyStr(trip.budget)
                             \o "; interests: " \o PyStr(trip.interests)), a2))
        Preferred(got) ==
            IF got.ret.ok
            THEN [ret |-> got.ret, net |-> got.net, caught |-> "none"]
            ELSE Second(got.net)
    IN  IF Truthy(api_key)
        THEN Preferred(get_mistral_insights(api_key, p.sdk, trip, a1))
        ELSE Second(<<>>)

----------------------------------------------------------------------------
(* The state machine: every action is one whole call *)

\* No call has been made yet
NoCall ==
    /\ call = [fn |-> "none"]
    /\ ret = Ok(None)
    /\ net = <<>>
    /\ rows = <<>>
    /\ caught = "none"
    /\ prev = [fn |-> "none"]

\* A session that has just begun: st.session_state holds nothing
NewSession == [messages |-> <<>>, ai_insights |-> <<>>]

\* The aggregator on its own: no language model is configured
Init ==
    /\ env \in [RAPIDAPI_KEY : KeyValues, MISTRAL_API_KEY : {None}]
    /\ planner = TravelPlanner(env.MISTRAL_API_KEY, FALSE, FALSE)
    /\ session = NewSession
    /\ NoCall

\* No call is in progress: the last one has returned and its result is gone.
Idle == call.fn = "none"

\* The call c returns done: its outcome, the requests it made, the rows it
\* formatted (when it formats any) and the exception it caught
Returns(c, done) ==
    /\ call' = c
    /\ ret' = done.ret
    /\ net' = done.net
    /\ rows' = IF "rows" \in DOMAIN done THEN done.rows ELSE <<>>
    /\ caught' = done.caught
    /\ UNCHANGED <<env, planner, session, prev>>

FetchRealtimeFlights ==
    /\ Idle
    /\ \E q \in Queries :
        \E r1 \in LookupAnswers(q.origin), r2 \in LookupAnswers(q.destination) :
          \E r3 \in FlightAnswers :
            Returns([fn |-> "fetch_realtime_flights", q |-> q],
                    fetch_realtime_flights(env.RAPIDAPI_KEY, q, r1, r2, r3))

\* mock_search_flights called on its own, over more arguments than the
\* flight search is called with
MockArgs ==
    {Query(o, d, dep, r, n) :
        o \in {Str("NYC"), Str("")}, d \in {Str("Paris"), Str("CDG")},
        dep \in {Str("2024-06-01")},
        r \in {None, Str(""), Str("2024-06-08")},
        n \in {Num(0), Num(1), Num(2)}}

MockSearchFlights ==
    /\ Idle
    /\ \E q \in MockArgs :
         /\ call' = [fn |-> "mock_search_flights", q |-> q]
         /\ ret' = MockOf(q)
         /\ net' = <<>>
         /\ rows' = <<>>
         /\ caught' = "none"
         /\ UNCHANGED <<env, planner, session, prev>>

\* What the airport search can answer when get_iata_code is called on its
\* own: every way the lookup can fail or succeed
IataAnswers ==
    {ConnFail, Http(404, NotJson), Http(500, Dict([items |-> List(<<>>)])),
     Http(200, NotJson), Http(200, None), Http(200, List(<<>>)),
     Http(200, EmptyDict),
     Http(200, Dict([items |-> None])),
     Http(200, Dict([items |-> List(<<>>)])),
     Http(200, Dict([items |-> Dict([a |-> Str("b")])])),
     Http(200, Dict([items |-> Str("CDG")])),
     Http(200, Dict([items |-> Num(3)])),
     Http(200, Dict([items |-> List(<<None>>)])),
     Http(200, Dict([items |-> List(<<EmptyDict>>)])),
     Http(200, Dict([items |-> List(<<Dict([name |-> Str("Orly")])>>)])),
     Http(200, Dict([items |-> List(<<Dict([iata |-> None])>>)])),
     Http(200, Dict([items |-> List(<<Dict([iata |-> Str("")])>>)])),
     Http(200, Dict([items |-> List(<<Dict([iata |-> Str("CDG")]),
                                       Dict([iata |-> Str("ORY")])>>)])),
     Found("CDG"), Found("JFK")}

Cities == {Str("Paris"), Str("NYC"), Str("New York"), Str("")}

GetIataCode ==
    /\ Idle
    /\ \E city_name \in Cities, resp \in IataAnswers :
         Returns([fn |-> "get_iata_code", city_name |-> city_name],
                 get_iata_code(env.RAPIDAPI_KEY, city_name, resp))

\* nested_get called on its own: the values probed and the paths tried
Probed ==
    {FullRecord, SparseRecord, EmptyDict, None, Str("arrival"),
     Dict([arrival |-> None]),
     Dict([arrival |-> Dict([airport |-> Str("CDG")])]),
     Dict([arrival |-> List(<<Dict([iata |-> Str("CDG")])>>)])}

PathKeys == {"arrival", "airport", "iata", "airline", "name"}

MaxPath == 3

NestedGet ==
    /\ Idle
    /\ \E d \in Probed, path \in SeqsUpTo(PathKeys, MaxPath) :
         /\ call' = [fn |-> "nested_get", d |-> d, path |-> path]
         /\ ret' = nested_get(d, path)
         /\ net' = <<>>
         /\ rows' = <<>>
         /\ caught' = "none"
         /\ UNCHANGED <<env, planner, session, prev>>

\* Entries of the local results
FullHotel ==
    Dict([title |-> Str("Hotel Lux"), address |-> Str("2 Av Y"),
          rating |-> Num(4), reviews |-> Num(120), price |-> Str("$200"),
          link |-> Str("http://lux.example")])

PartialHotel ==
    Dict([title |-> Str("Le Petit"), address |-> Str("3 Rue Z"),
          rating |-> None, link |-> Str("")])

\* A JSON null where an entry is expected
NullHotel == None

HotelEntries == {FullHotel, PartialHotel, NullHotel}

MaxHotels == 6

LocalLists == SeqsUpTo(HotelEntries, MaxHotels)

\* Organic results
InnItem == Dict([title |-> Str("Grand Inn Paris"), address |-> Str("1 Rue X")])
RitzItem ==
    Dict([title |-> Str("HOTEL Ritz"), link |-> Str("http://ritz.example"),
          price |-> None])
GuideItem == Dict([title |-> Str("Paris travel guide"), link |-> Str("http://guide.example")])
UntitledItem == Dict([link |-> Str("http://hotel.example")])
NullTitleItem == Dict([title |-> None])

OrganicItems == {InnItem, RitzItem, GuideItem, UntitledItem, NullTitleItem, None}

MaxOrganic == 2

\* What holds no hotel: no section, an empty or null one, a mapping
\* without places or with places that are no list
EmptyLocals ==
    {Dict([local_results |-> List(<<>>)]),
     Dict([local_results |-> None]),
     Dict([local_results |-> EmptyDict]),
     Dict([local_results |-> Dict([places |-> List(<<>>)])]),
     Dict([local_results |-> Dict([places |-> None])]),
     Dict([local_results |-> Str("")])}

Organics ==
    {List(s) : s \in SeqsUpTo(OrganicItems, MaxOrganic)}
        \cup {None, Str("inn"), EmptyDict, Dict([title |-> Str("Hotel")])}

\* d with the key organic_results set to v
WithOrganicResults(d, v) ==
    Dict([k \in DOMAIN Val(d) \cup {"organic_results"} |->
             IF k = "organic_results" THEN v ELSE Val(d)[k]])

\* The JSON bodies the search can answer with
HotelBodies ==
    {Dict([local_results |-> List(s)]) : s \in LocalLists}
    \cup {Dict([local_results |-> Dict([places |-> List(s)])]) : s \in LocalLists}
    \cup {Dict([local_results |-> List(s),
                organic_results |-> List(<<InnItem, RitzItem>>)]) : s \in LocalLists}
    \cup {WithOrganicResults(d, v) : d \in EmptyLocals \cup {EmptyDict}, v \in Organics}
    \cup EmptyLocals
    \cup {EmptyDict, None, List(<<>>), List(<<Str("local_results")>>),
          Str("organic_results"), Num(0),
          Dict([local_results |-> Str("xy")]),
          Dict([local_results |-> Dict([places |-> Str("xy")])]),
          Dict([local_results |-> Dict([places |-> Num(7)])]),
          Dict([local_results |-> Dict([places |-> Dict([a |-> FullHotel])])])}

HotelAnswers ==
    {Http(200, b) : b \in HotelBodies}
    \cup {ConnFail, Http(200, NotJson), Http(403, NotJson),
          Http(500, Dict([local_results |-> List(<<FullHotel>>)]))}

Destinations == {Str("Paris"), Str("Rome")}

SerpapiSearchHotels ==
    /\ Idle
    /\ \E destination \in Destinations, resp \in HotelAnswers :
         Returns([fn |-> "serpapi_search_hotels", destination |-> destination],
                 serpapi_search_hotels(destination, resp))

\* The caller is done with the result: everything of the call is discarded
\* (all values are request-scoped).
Discard ==
    /\ ~Idle
    /\ call' = [fn |-> "none"]
    /\ ret' = Ok(None)
    /\ net' = <<>>
    /\ rows' = <<>>
    /\ caught' = "none"
    /\ UNCHANGED <<env, planner, session, prev>>

Next ==
    \/ FetchRealtimeFlights
    \/ MockSearchFlights
    \/ GetIataCode
    \/ NestedGet
    \/ Discard

\* The flight side: the flight search, its mock, the airport-code lookup
\* and the nested-field resolver
Spec == Init /\ [][Next]_vars

\* The hotel side
HotelNext ==
    \/ SerpapiSearchHotels
    \/ Discard

HotelSpec == Init /\ [][HotelNext]_vars

----------------------------------------------------------------------------
(* One session of the app: the chat page and the AI insights page *)

\* The planner as the module builds it, with and without a key, the
\* mistralai package and LangChain
Planners(api_key) ==
    {TravelPlanner(api_key, sdk, langchain) : sdk \in BOOLEAN, langchain \in BOOLEAN}

MistralKeys == {None, Str("mistral-key")}

SessionInit ==
    /\ env \in [RAPIDAPI_KEY : {None}, MISTRAL_API_KEY : MistralKeys]
    /\ planner \in Planners(env.MISTRAL_API_KEY)
    /\ session = NewSession
    /\ NoCall

\* What the model answers a chat or an insights prompt with
ChatAnswers == {Raise("MistralException"), Ok(<<Prose("Visit in spring.")>>)}

Prompts == {Str("Best time to visit Paris?"), Str("Is Rome expensive?")}

InsightTrips ==
    {Trip(Str("Paris"), Str("3 days"), Str("Mid-range"), Str("art")),
     Trip(Str(""), Str("3 days"), Str("Mid-range"), Str(""))}

Clock == {Str("2024-06-01 10:00")}

MaxMessages == 4
MaxInsights == 4

\* A page run that has handled a widget: what it showed and the session
\* state it leaves
PageReturns(c, done, s) ==
    /\ call' = c
    /\ ret' = done.ret
    /\ net' = done.net
    /\ rows' = <<>>
    /\ caught' = done.caught
    /\ session' = s
    /\ UNCHANGED <<env, planner, prev>>

WithMessages(ms) == [session EXCEPT !.messages = ms]
WithInsights(is) == [session EXCEPT !.ai_insights = is]

\* The user submits a prompt in the chat input
ChatSubmit ==
    /\ Idle
    /\ Len(session.messages) < MaxMessages
    /\ \E prompt \in Prompts, answer \in ChatAnswers :
         LET Ran(done) ==
                 PageReturns([fn |-> "chat_page", prompt |-> prompt], done,
                             WithMessages(done.messages))
         IN  Ran(chat_page(session.messages, planner.llm, prompt, answer))

\* The user presses Clear Chat
ClearChat ==
    /\ Idle
    /\ PageReturns([fn |-> "clear_chat"],
                   [ret |-> Ok(None), net |-> <<>>, caught |-> "none"],
                   WithMessages(<<>>))

\* The user presses Get AI Travel Insights
GetAiInsights ==
    /\ Idle
    /\ Len(session.ai_insights) < MaxInsights
    /\ \E trip \in InsightTrips, now \in Clock, answer \in ChatAnswers :
         LET Ran(done) ==
                 PageReturns([fn |-> "show_ai_insights_page", trip |-> trip],
                             done, WithInsights(done.ai_insights))
         IN  Ran(show_ai_insights_page(session.ai_insights,
                                       env.MISTRAL_API_KEY, planner, trip,
                                       now, answer))

SessionNext ==
    \/ ChatSubmit
    \/ ClearChat
    \/ GetAiInsights
    \/ Discard

SessionSpec == SessionInit /\ [][SessionNext]_vars

----------------------------------------------------------------------------
(* The operations of the planner *)

PlannerInit ==
    /\ env \in [RAPIDAPI_KEY : {None, Str("rapid-key")},
                MISTRAL_API_KEY : MistralKeys]
    /\ planner \in Planners(env.MISTRAL_API_KEY)
    /\ session = NewSession
    /\ NoCall

\* JSON values the model may answer with
RomePlan ==
    Json("{\"destination\": \"Rome\", \"duration\": \"2 days\", \"total_budget\": \"$300\", \"days\": [{\"day\": 1, \"activities\": [\"Forum\"]}, \"rest\"], \"additional_tips\": [\"Book ahead.\"]}",
         Dict([destination |-> Str("Rome"), duration |-> Str("2 days"),
               total_budget |-> Str("$300"),
               days |-> List(<<Dict([day |-> Num(1),
                                     activities |-> List(<<Str("Forum")>>)]),
                               Str("rest")>>),
               additional_tips |-> List(<<Str("Book ahead.")>>)]))
NotePlan == Json("{\"note\": \"ask again\"}", Dict([note |-> Str("ask again")]))
DaysCount == Json("{\"days\": 3}", Dict([days |-> Num(3)]))
EmptyPlan == Json("{}", EmptyDict)
ListPlan == Json("[\"Rome\", \"Paris\"]", List(<<Str("Rome"), Str("Paris")>>))
NullPlan == Json("null", None)
Intro == Prose("Here is your plan: ")
Outro == Prose(" Enjoy!")

\* What the model answers the itinerary prompt with
ItineraryAnswers ==
    {Raise("MistralException")}
    \cup {Ok(output) : output \in
            {<<RomePlan>>, <<Intro, RomePlan>>, <<Intro, RomePlan, Outro>>,
             <<RomePlan, Outro, NotePlan>>, <<Intro, NotePlan, RomePlan>>,
             <<NotePlan>>, <<DaysCount>>, <<EmptyPlan>>, <<Intro, EmptyPlan>>,
             <<ListPlan>>, <<Intro, ListPlan>>, <<NullPlan>>,
             <<>>, <<Intro>>, <<OpenBrace, CloseBrace>>,
             <<Intro, OpenBrace, CloseBrace>>, <<OpenBrace, Intro>>,
             <<Intro, CloseBrace, OpenBrace>>, <<OpenBrace, RomePlan>>,
             <<RomePlan, CloseBrace>>, <<OpenBrace, Intro, CloseBrace>>}}

Trips ==
    {Trip(Str("Paris"), Str("3 days"), Str("Mid-range"), Str("art, food"))}

Today == {Str("2024-06-01")}

\* What the providers answer the planner's hotel and flight searches with
FewHotelAnswers ==
    {ConnFail, Http(200, Dict([local_results |-> List(<<FullHotel>>)]))}
FewFlightAnswers ==
    {ConnFail, Departures(<<FullRecord, SparseRecord>>),
     Departures(<<FlatRecord>>), Departures(<<NullRecord>>)}

GenerateItinerary ==
    /\ Idle
    /\ \E trip \in Trips, today \in Today, answer \in ItineraryAnswers :
        \E h \in FewHotelAnswers, r1 \in LookupAnswers(Str("YourCity")) :
          \E r2 \in LookupAnswers(trip.destination), r3 \in FewFlightAnswers :
            Returns([fn |-> "generate_itinerary", trip |-> trip, answer |-> answer],
                    generate_itinerary(planner, env.RAPIDAPI_KEY, trip, today,
                                       answer, h, r1, r2, r3))

\* TravelPlanner.search_hotels: serpapi_search_hotels as it is
SearchHotels ==
    /\ Idle
    /\ \E destination \in Destinations, h \in FewHotelAnswers :
         Returns([fn |-> "search_hotels", destination |-> destination],
                 serpapi_search_hotels(destination, h))

\* TravelPlanner.search_flights: fetch_realtime_flights as it is
SearchFlights ==
    /\ Idle
    /\ \E q \in Queries :
        \E r1 \in LookupAnswers(q.origin), r2 \in LookupAnswers(q.destination) :
          \E r3 \in FewFlightAnswers :
            Returns([fn |-> "search_flights", q |-> q],
                    fetch_realtime_flights(env.RAPIDAPI_KEY, q, r1, r2, r3))

Chat ==
    /\ Idle
    /\ \E prompt \in Prompts, answer \in ChatAnswers :
         Returns([fn |-> "chat", prompt |-> prompt],
                 chat(planner.llm, prompt, answer))

GetTravelRecommendations ==
    /\ Idle
    /\ \E query \in Prompts, answer \in ChatAnswers :
         Returns([fn |-> "get_travel_recommendations", query |-> query],
                 get_travel_recommendations(planner.llm, query, answer))

\* The second answer is another reply or another failure of the model
TipsAnswers == {Raise("MistralException"), Ok(<<Prose("Pack an umbrella.")>>)}

GetTravelInsightsRealtime ==
    /\ Idle
    /\ \E trip \in Trips, a1 \in ChatAnswers, a2 \in TipsAnswers :
         Returns([fn |-> "get_travel_insights_realtime", trip |-> trip,
                  a1 |-> a1, a2 |-> a2],
                 get_travel_insights_realtime(env.MISTRAL_API_KEY, planner,
                                              trip, a1, a2))

PlannerNext ==
    \/ GenerateItinerary
    \/ SearchHotels
    \/ SearchFlights
    \/ Chat
    \/ GetTravelRecommendations
    \/ GetTravelInsightsRealtime
    \/ Discard

PlannerSpec == PlannerInit /\ [][PlannerNext]_vars

----------------------------------------------------------------------------
(* The flight search made twice *)

RepeatInit ==
    /\ env \in [RAPIDAPI_KEY : {Str("rapid-key")}, MISTRAL_API_KEY : {None}]
    /\ planner = TravelPlanner(env.MISTRAL_API_KEY, FALSE, FALSE)
    /\ session = NewSession
    /\ NoCall

\* The caller is done with the result of a flight search; what it was is
\* kept, to compare the next search with
KeepFlights ==
    /\ call.fn = "search_flights"
    /\ prev' = [fn |-> call.fn, q |-> call.q, ret |-> ret, net |-> net,
                rows |-> rows, caught |-> caught]
    /\ call' = [fn |-> "none"]
    /\ ret' = Ok(None)
    /\ net' = <<>>
    /\ rows' = <<>>
    /\ caught' = "none"
    /\ UNCHANGED <<env, planner, session>>

RepeatNext ==
    \/ SearchFlights
    \/ KeepFlights

RepeatSpec == RepeatInit /\ [][RepeatNext]_vars

----------------------------------------------------------------------------
(* Properties of the flight side, under Spec *)

FlightsCalled == call.fn = "fetch_realtime_flights"

\* C1: with RAPIDAPI_KEY unset (or empty), fetch_realtime_flights makes no
\* request at all, neither for the two airport codes nor for the flights,
\* and returns exactly what mock_search_flights gives for the caller's own
\* origin, destination, dates and party count, with no error note before it.
C1_NoKeyNoRequestMock ==
    (FlightsCalled /\ ~Truthy(env.RAPIDAPI_KEY)) =>
        /\ net = <<>>
        /\ ret = MockOf(call.q)
        /\ caught = "none"

C1_Witness ==
    /\ FlightsCalled
    /\ env.RAPIDAPI_KEY = None
    /\ call.q.return_date # None
    /\ ret.ok /\ net = <<>>

\* The text the mock is to give, written out from its parts
MockText(q) ==
    "Flights from " \o q.origin.str \o " to " \o q.destination.str
        \o " on " \o q.departure_date.str
        \o (IF q.return_date \in {None, Str("")} THEN ""
            ELSE " returning " \o q.return_date.str)
        \o " for " \o ToString(q.adults.int) \o " adults:\n"
        \o "- Airline X: $350\n"
        \o "- Airline Y: $420\n"
        \o "- Airline Z: $390"

ScenarioQuery ==
    Query(Str("NYC"), Str("Paris"), Str("2024-06-01"), None, Num(1))

\* C2: the mock text is 'Flights from <origin> to <destination> on
\* <departure>', then ' returning <return_date>' only when a return date is
\* given, then ' for <adults> adults:' and the three fixed airline lines;
\* for NYC, Paris, 2024-06-01, no return date and 1 adult it is the literal
\* string of the scenario.
C2_MockText ==
    (call.fn = "mock_search_flights") =>
        /\ ret = Ok(Str(MockText(call.q)))
        /\ (call.q = ScenarioQuery =>
              ret.v.str = "Flights from NYC to Paris on 2024-06-01 for 1 adults:\n- Airline X: $350\n- Airline Y: $420\n- Airline Z: $390")

C2_Witness ==
    /\ call.fn = "mock_search_flights"
    /\ call.q = ScenarioQuery
    /\ ret.ok

----------------------------------------------------------------------------
(* The flight normalizer, under Spec *)

StartsWith(s, prefix) ==
    Len(s) >= Len(prefix) /\ SubSeq(s, 1, Len(prefix)) = prefix

EndsWith(s, suffix) ==
    Len(s) >= Len(suffix) /\ SubSeq(s, Len(s) - Len(suffix) + 1, Len(s)) = suffix

\* The flight search went as far as its flights request
FlightsAsked == FlightsCalled /\ Len(net) = 3

\* The target code: what the destination was resolved to
TargetCode ==
    get_iata_code(env.RAPIDAPI_KEY, call.q.destination, net[2].resp).ret.v

\* The body of the answer to the flights request
Payload == net[3].resp.body

\* The answer is a payload whose departures are a list of records
PayloadListed ==
    /\ FlightsAsked
    /\ GetJson(net[3].resp).ok
    /\ IsDict(Payload)
    /\ "departures" \in DOMAIN Val(Payload)
    /\ Tag(Val(Payload)["departures"]) = "list"

PayloadRecords == Val(Val(Payload)["departures"])

\* No record's resolved arrival-airport code is the target code
ZeroMatching ==
    \A i \in DOMAIN PayloadRecords :
        ~PyEq(get_arrival_iata(PayloadRecords[i]).v, TargetCode)

\* The result is the table of the records fs, one row each, in order
TableOf(fs) ==
    /\ ret.ok
    /\ caught = "none"
    /\ StartsWith(PyStr(ret.v), "### Real-time flights from ")
    /\ Len(rows) = Len(fs)
    /\ \A i \in DOMAIN fs : Ok(rows[i]) = RowCells(fs[i])

IsResolved(cell) == Truthy(cell) /\ ~PyEq(cell, NA)

\* How many of the 7 key attributes resolve across the rows rs: in at
\* least one of them
ResolvedAcross(rs) ==
    Cardinality({k \in KeyColumns : \E i \in DOMAIN rs : IsResolved(rs[i][k])})

\* C4 as stated: whenever a table of flights is rendered, the advisory is
\* at its end if and only if fewer than 3 of the 7 key attributes resolve
\* across the rows of the table.
C4_AdvisoryAcrossRows ==
    (FlightsCalled /\ caught = "none" /\ rows # <<>>) =>
        (EndsWith(PyStr(ret.v), Advisory)
            <=> ResolvedAcross(rows) < MeaningfulMin)

----------------------------------------------------------------------------
(* The hotel search, under HotelSpec *)

HotelsCalled == call.fn = "serpapi_search_hotels"

\* The hotel payload: the JSON object the search answered with
HotelPayload == net[1].resp.body

PayloadGiven ==
    /\ HotelsCalled
    /\ GetJson(net[1].resp).ok
    /\ IsDict(HotelPayload)

\* The title of an organic result names a hotel or an inn, in any case
NamesHotel(item) ==
    /\ IsDict(item)
    /\ "title" \in DOMAIN Val(item)
    /\ Tag(Val(item)["title"]) = "str"
    /\ \/ Contains("hotel", Lower(Val(Val(item)["title"])))
       \/ Contains("inn", Lower(Val(Val(item)["title"])))

\* The organic results of the payload, none when it lists none
OrganicOf(payload) ==
    IF "organic_results" \in DOMAIN Val(payload)
       /\ Tag(Val(payload)["organic_results"]) = "list"
    THEN Val(Val(payload)["organic_results"])
    ELSE <<>>

\* No local-results section, and no organic title with 'hotel' or 'inn'
NothingToShow ==
    /\ PayloadGiven
    /\ "local_results" \notin DOMAIN Val(HotelPayload)
    /\ \A i \in DOMAIN OrganicOf(HotelPayload) :
          ~NamesHotel(OrganicOf(HotelPayload)[i])

\* The organic section is absent or a list of mappings, each without a
\* title or with a text for title
OrganicWellFormed ==
    /\ "organic_results" \in DOMAIN Val(HotelPayload)
          => Tag(Val(HotelPayload)["organic_results"]) = "list"
    /\ \A i \in DOMAIN OrganicOf(HotelPayload) :
          /\ IsDict(OrganicOf(HotelPayload)[i])
          /\ "title" \in DOMAIN Val(OrganicOf(HotelPayload)[i])
                => Tag(Val(OrganicOf(HotelPayload)[i])["title"]) = "str"

\* The call returned the no-results text: no error, no table
SaysNoHotels ==
    /\ ret.ok
    /\ caught = "none"
    /\ rows = <<>>
    /\ StartsWith(PyStr(ret.v), "No hotels found for your search.")

ScenarioPayload == Dict([organic_results |-> List(<<InnItem>>)])

\* C6 as stated: every row of the hotel table has its six cells and none
\* of them is None, a field the entry does not supply being "N/A"; the one
\* organic result 'Grand Inn Paris', '1 Rue X' gives exactly one row, with
\* "N/A" for rating, reviews, price and link.
C6_RowsComplete ==
    HotelsCalled =>
        /\ \A i \in DOMAIN rows :
              /\ Len(rows[i]) = 6
              /\ \A j \in 1..6 : rows[i][j] # None
        /\ (PayloadGiven /\ HotelPayload = ScenarioPayload) =>
              rows = <<<<Str("Grand Inn Paris"), Str("1 Rue X"),
                         NA, NA, NA, NA>>>>

\* The request failed: no connection, an error status, or a body that is
\* not JSON
RequestFailed(resp) ==
    \/ resp = ConnFail
    \/ resp.status >= 400
    \/ resp.body = NotJson

\* Some entry among the first five local results is no mapping
MalformedEntry ==
    /\ PayloadGiven
    /\ "local_results" \in DOMAIN Val(HotelPayload)
    /\ Tag(Val(HotelPayload)["local_results"]) = "list"
    /\ \E i \in DOMAIN First5(Val(Val(HotelPayload)["local_results"])) :
          ~IsDict(Val(Val(HotelPayload)["local_results"])[i])

\* C9: serpapi_search_hotels always returns a text, it never raises; when
\* the request fails (network, error status, malformed JSON), when an
\* entry to format is malformed, and whenever anything was raised inside,
\* the text returned is '[SerpAPI error: ' followed by the error and ']'.
C9_HotelsNeverRaise ==
    HotelsCalled =>
        /\ ret.ok
        /\ Tag(ret.v) = "str"
        /\ (RequestFailed(net[1].resp) \/ MalformedEntry) => caught # "none"
        /\ caught # "none" =>
              ret.v = Str("[SerpAPI error: " \o caught \o "]")

C9_Witness ==
    /\ HotelsCalled
    /\ MalformedEntry
    /\ caught = "AttributeError"
    /\ ret = Ok(Str("[SerpAPI error: AttributeError]"))

----------------------------------------------------------------------------
(* The nested-field resolver, the except clause of the flight search and the
   airport-code lookup, under Spec *)

\* Every segment of the path exists, from d down: each container on the
\* way is a mapping with the segment for key
RECURSIVE PathExists(_, _)
PathExists(d, path) ==
    \/ path = <<>>
    \/ /\ IsDict(d)
       /\ Head(path) \in DOMAIN Val(d)
       /\ PathExists(Val(d)[Head(path)], Tail(path))

\* The value at a path that exists
RECURSIVE ValueAt(_, _)
ValueAt(d, path) ==
    IF path = <<>> THEN d ELSE ValueAt(Val(d)[Head(path)], Tail(path))

\* C7: nested_get never raises; it returns the value at the path when
\* every segment exists, and None when a segment is missing or the
\* container reached at some depth is not a mapping.
C7_NestedGet ==
    (call.fn = "nested_get") =>
        /\ ret.ok
        /\ PathExists(call.d, call.path) => ret.v = ValueAt(call.d, call.path)
        /\ ~PathExists(call.d, call.path) => ret.v = None

C7_Witness ==
    /\ call.fn = "nested_get"
    /\ call.path = <<"arrival", "airport", "iata">>
    /\ ret = Ok(Str("CDG"))

C7_WitnessNotMapping ==
    /\ call.fn = "nested_get"
    /\ Len(call.path) = 2
    /\ IsDict(call.d)
    /\ Head(call.path) \in DOMAIN Val(call.d)
    /\ ~IsDict(Val(call.d)[Head(call.path)])
    /\ Val(call.d)[Head(call.path)] # None
    /\ ret = Ok(None)

\* C8: with the key set, the flight search never raises; when the flights
\* request fails or anything is raised while the answer is parsed or
\* normalized, it returns the mock text for the caller's own arguments
\* with the error note '[API error: ...] Falling back to mock data.'
\* before it.
C8_ExceptionGivesAnnotatedMock ==
    (FlightsCalled /\ Truthy(env.RAPIDAPI_KEY)) =>
        /\ ret.ok
        /\ FlightsAsked
        /\ RequestFailed(net[3].resp) => caught # "none"
        /\ caught # "none" =>
              ret.v = Str("[API error: " \o caught
                            \o "] Falling back to mock data.\n"
                            \o MockText(call.q))

C8_Witness ==
    /\ FlightsCalled
    /\ Truthy(env.RAPIDAPI_KEY)
    /\ ~RequestFailed(net[3].resp)
    /\ caught = "AttributeError"
    /\ call.q.return_date # None
    /\ ret.v = Str("[API error: AttributeError] Falling back to mock data.\n"
                    \o MockText(call.q))

IataCalled == call.fn = "get_iata_code"

\* The lookup succeeded with a non-empty result list whose first item has
\* a code
HasCode(resp) ==
    /\ ~RequestFailed(resp)
    /\ IsDict(resp.body)
    /\ "items" \in DOMAIN Val(resp.body)
    /\ Tag(Val(resp.body)["items"]) = "list"
    /\ Val(Val(resp.body)["items"]) # <<>>
    /\ IsDict(Val(Val(resp.body)["items"])[1])
    /\ "iata" \in DOMAIN Val(Val(Val(resp.body)["items"])[1])
    /\ Truthy(Val(Val(Val(resp.body)["items"])[1])["iata"])

FirstCode(resp) == Val(Val(Val(resp.body)["items"])[1])["iata"]

\* C10: get_iata_code never raises and makes at most one request, none
\* without a key; it returns the first result's code when the lookup
\* succeeds with a non-empty result list whose first item has a code, and
\* the text it was given in every other case.
C10_GetIataCode ==
    IataCalled =>
        /\ ret.ok
        /\ Len(net) <= 1
        /\ ~Truthy(env.RAPIDAPI_KEY) => (net = <<>> /\ ret.v = call.city_name)
        /\ Truthy(env.RAPIDAPI_KEY) =>
              /\ Len(net) = 1
              /\ ret.v = IF HasCode(net[1].resp) THEN FirstCode(net[1].resp)
                          ELSE call.city_name

C10_Witness ==
    /\ IataCalled
    /\ Len(net) = 1
    /\ HasCode(net[1].resp)
    /\ ret.v # call.city_name
    /\ ret.v = FirstCode(net[1].resp)

C10_WitnessUnchanged ==
    /\ IataCalled
    /\ Len(net) = 1
    /\ ~RequestFailed(net[1].resp)
    /\ ~HasCode(net[1].resp)
    /\ caught = "none"
    /\ ret.v = call.city_name

----------------------------------------------------------------------------
(* The flight normalizer's filter and cells, under Spec *)

\* The payload's records whose resolved arrival-airport code is the target
\* code, in payload order
MatchingRecords ==
    LET IsMatch(f) == PyEq(get_arrival_iata(f).v, TargetCode)
    IN  SelectSeq(PayloadRecords, IsMatch)

\* C16: when at least one record's resolved arrival-airport code equals the
\* target code, the rendered rows are the first up-to-5 matching records in
\* payload order, one row each: never more than 5 rows, none of a record
\* that does not match.
C16_MatchingFirstFive ==
    (PayloadListed /\ ~ZeroMatching) =>
        /\ ret.ok
        /\ caught = "none"
        /\ StartsWith(PyStr(ret.v), "### Real-time flights from ")
        /\ Len(rows) <= RowLimit
        /\ Len(rows) = IF Len(MatchingRecords) < RowLimit
                       THEN Len(MatchingRecords) ELSE RowLimit
        /\ \A i \in DOMAIN rows : Ok(rows[i]) = RowCells(MatchingRecords[i])

C16_Witness ==
    /\ PayloadListed
    /\ Len(MatchingRecords) > RowLimit
    /\ Len(rows) = RowLimit
    /\ \A i \in DOMAIN rows : Ok(rows[i]) = RowCells(MatchingRecords[i])

C16_WitnessSkipsOthers ==
    /\ PayloadListed
    /\ Len(PayloadRecords) = 2
    /\ Len(MatchingRecords) = 1
    /\ MatchingRecords[1] = PayloadRecords[2]
    /\ Len(rows) = 1

\* The records the rows of the table are made of
Rendered ==
    IF ZeroMatching THEN First5(PayloadRecords) ELSE First5(MatchingRecords)

\* A table was returned for a payload that lists its records
TableRendered ==
    PayloadListed /\ caught = "none" /\ rows # <<>>

\* The values at the candidate paths of a column, in the column's order
ValuesAt(f, attr) ==
    [i \in DOMAIN Candidates(attr) |-> EvalCand(f, Candidates(attr)[i]).v]

\* The value at the first candidate path that is not absent, else "N/A"
FirstPresent(f, attr) ==
    LET present == {i \in DOMAIN ValuesAt(f, attr) : ValuesAt(f, attr)[i] # None}
    IN  IF present = {} THEN NA ELSE ValuesAt(f, attr)[Least(present)]

\* The value at the first candidate path that holds a truthy value, else
\* "N/A"
FirstTruthy(f, attr) ==
    LET truthy == {i \in DOMAIN ValuesAt(f, attr) : Truthy(ValuesAt(f, attr)[i])}
    IN  IF truthy = {} THEN NA ELSE ValuesAt(f, attr)[Least(truthy)]

\* C17 as stated: every cell of a rendered record is the value at the first
\* candidate path, in the column's order, that is not absent, and is "N/A"
\* exactly when every candidate path is absent.
C17_FirstNonAbsent ==
    TableRendered =>
        \A i \in DOMAIN rows : \A k \in DOMAIN Attrs :
            /\ rows[i][k] = FirstPresent(Rendered[i], Attrs[k])
            /\ rows[i][k] = NA <=>
                   \A j \in DOMAIN Candidates(Attrs[k]) :
                       ValuesAt(Rendered[i], Attrs[k])[j] = None

\* C17: every cell of a rendered record is the value at the first candidate
\* path, in the column's order, that holds a truthy value (neither absent,
\* nor null, nor empty), and is "N/A" exactly when no candidate path holds
\* one; a later candidate is never taken when an earlier one is truthy.
C17_FirstTruthy ==
    TableRendered =>
        \A i \in DOMAIN rows : \A k \in DOMAIN Attrs :
            /\ rows[i][k] = FirstTruthy(Rendered[i], Attrs[k])
            /\ rows[i][k] = NA <=>
                   \A j \in DOMAIN Candidates(Attrs[k]) :
                       ~Truthy(ValuesAt(Rendered[i], Attrs[k])[j])

\* A rendered record has an empty departure time at an earlier candidate
\* path and a time at a later one, which is the cell
C17_Witness ==
    /\ TableRendered
    /\ \E i \in DOMAIN rows :
          /\ ValuesAt(Rendered[i], "dep_time")[2] = Str("")
          /\ ValuesAt(Rendered[i], "dep_time")[3] = Str("09:30")
          /\ rows[i][3] = Str("09:30")
          /\ rows[i][5] = NA

C17_WitnessSecondCandidate ==
    /\ TableRendered
    /\ \E i \in DOMAIN rows :
          /\ ValuesAt(Rendered[i], "flight_num") = <<None, Str("AX100"), None>>
          /\ rows[i][2] = Str("AX100")

----------------------------------------------------------------------------
(* The hotel search's choice of section, under HotelSpec *)

\* The entries a present local-results section supplies: those of a plain
\* list, or of the places list of a mapping
LocalEntries ==
    LET Entries(lr) ==
            IF Tag(lr) = "list" THEN Val(lr)
            ELSE IF IsDict(lr) /\ "places" \in DOMAIN Val(lr)
                    /\ Tag(Val(lr)["places"]) = "list"
                 THEN Val(Val(lr)["places"])
            ELSE <<>>
    IN  IF "local_results" \in DOMAIN Val(HotelPayload)
        THEN Entries(Val(HotelPayload)["local_results"]) ELSE <<>>

\* There is no local-results section, or it is an empty list, or a mapping
\* with an empty places list
SuppliesNoEntry ==
    \/ "local_results" \notin DOMAIN Val(HotelPayload)
    \/ Val(HotelPayload)["local_results"] = List(<<>>)
    \/ Val(HotelPayload)["local_results"] = Dict([places |-> List(<<>>)])

\* The organic results whose title names a hotel or an inn, in order
NamedOrganic == SelectSeq(OrganicOf(HotelPayload), NamesHotel)

\* The link cell of an entry: '[View](<link>)' of a link that is a
\* non-empty text, "N/A" of one that is missing, null or empty
ExpectedLink(h) ==
    IF "link" \in DOMAIN Val(h) /\ Tag(Val(h)["link"]) = "str"
       /\ Val(Val(h)["link"]) # ""
    THEN Str("[View](" \o Val(Val(h)["link"]) \o ")")
    ELSE NA

ExpectedRow(h) ==
    <<Field(h, "title"), Field(h, "address"), Field(h, "rating"),
      Field(h, "reviews"), Field(h, "price"), ExpectedLink(h)>>

\* The result is the hotel table of the entries hs, one row each, in order
HotelTableOf(hs) ==
    /\ ret.ok
    /\ caught = "none"
    /\ StartsWith(PyStr(ret.v), "### Top Hotels (Google Hotels via SerpAPI)\n")
    /\ Len(rows) = Len(hs)
    /\ \A i \in DOMAIN hs : rows[i] = ExpectedRow(hs[i])

\* Without local entries the rows are those of the named organic results
OrganicWhenNoLocal ==
    (SuppliesNoEntry /\ OrganicWellFormed /\ NamedOrganic # <<>>)
        => HotelTableOf(First5(NamedOrganic))

\* C18 as stated: whenever the local-results section supplies at least one
\* entry, the rows are its first up-to-5 entries and the organic results
\* are ignored; the organic results are scanned only when it supplies
\* none; a present link is '[View](<link>)', a missing or empty one "N/A".
C18_LocalAlwaysPreferred ==
    PayloadGiven =>
        /\ LocalEntries # <<>> => HotelTableOf(First5(LocalEntries))
        /\ OrganicWhenNoLocal

\* C18: whenever the local-results section supplies at least one entry and
\* its first up-to-5 entries are mappings, the rows are those entries, in
\* order, and the organic results are ignored; the organic results are
\* scanned only when it supplies none; a present link is '[View](<link>)',
\* a missing, null or empty one "N/A".
C18_LocalPreferred ==
    PayloadGiven =>
        /\ (/\ LocalEntries # <<>>
            /\ \A i \in DOMAIN First5(LocalEntries) :
                  IsDict(First5(LocalEntries)[i]))
              => HotelTableOf(First5(LocalEntries))
        /\ OrganicWhenNoLocal

\* Local entries and hotel-like organic results together: the rows are the
\* local entries, one with its link and one without
C18_Witness ==
    /\ PayloadGiven
    /\ LocalEntries = <<FullHotel, PartialHotel>>
    /\ NamedOrganic # <<>>
    /\ rows[1][6] = Str("[View](http://lux.example)")
    /\ rows[2][6] = NA
    /\ Len(rows) = 2

C18_WitnessOrganic ==
    /\ PayloadGiven
    /\ SuppliesNoEntry
    /\ "local_results" \in DOMAIN Val(HotelPayload)
    /\ Len(NamedOrganic) = 2
    /\ HotelTableOf(NamedOrganic)

C18_WitnessPlaces ==
    /\ PayloadGiven
    /\ "local_results" \in DOMAIN Val(HotelPayload)
    /\ IsDict(Val(HotelPayload)["local_results"])
    /\ Len(LocalEntries) > RowLimit
    /\ HotelTableOf(First5(LocalEntries))

----------------------------------------------------------------------------
(* The session state, under SessionSpec *)

\* C19 as stated: the list of AI-insight results held in the session never
\* has more entries than the 3 most recent ones that are shown.
C19_InsightsCapped == Len(session.ai_insights) <= ShownInsights

\* The role of the i-th message of a history that alternates from the user
RoleAt(i) == IF i % 2 = 1 THEN "user" ELSE "assistant"

\* C20: the chat history has even length and alternates user, assistant
\* from the user on; a submitted prompt leaves it ending with the user's
\* message holding the prompt and one assistant message holding what was
\* answered (the reply, or the fixed text when the model is unavailable or
\* fails); Clear Chat leaves it empty.
C20_ChatAlternates ==
    /\ Len(session.messages) % 2 = 0
    /\ \A i \in DOMAIN session.messages : session.messages[i].role = RoleAt(i)
    /\ call.fn = "chat_page" =>
          /\ Len(session.messages) >= 2
          /\ session.messages[Len(session.messages) - 1]
                 = Message("user", call.prompt)
          /\ session.messages[Len(session.messages)]
                 = Message("assistant", ret.v)
          /\ ret.v \in {Str(Unavailable), Str("Visit in spring.")}
    /\ call.fn = "clear_chat" => session.messages = <<>>

\* A second prompt, answered by the model, after a first one it failed on
C20_Witness ==
    /\ call.fn = "chat_page"
    /\ Len(session.messages) = 4
    /\ session.messages[2].content = Str(Unavailable)
    /\ session.messages[4].content = Str("Visit in spring.")
    /\ caught = "none"
    /\ Len(net) = 1

C20_WitnessCleared ==
    /\ call.fn = "clear_chat"
    /\ session.messages = <<>>
    /\ session.ai_insights # <<>>

----------------------------------------------------------------------------
(* The planner's operations, under PlannerSpec *)

PlannerOperations ==
    {"generate_itinerary", "search_hotels", "search_flights", "chat",
     "get_travel_recommendations"}

\* C11 as stated: no exception escapes an operation of the planner; each
\* returns a text or an itinerary to its caller whatever the language
\* model and the hotel and flight providers do.
C11_NothingEscapes ==
    call.fn \in PlannerOperations =>
        /\ ret.ok
        /\ Tag(ret.v) \in {"str", "itinerary"}

ItineraryCalled == call.fn = "generate_itinerary"

\* The model was there and its call returned its text
Answered == ItineraryCalled /\ planner.llm /\ call.answer.ok

\* The pieces that open a brace-delimited span, and those that close one
OpeningAt(segs) ==
    {i \in DOMAIN segs :
        segs[i].kind = "open" \/ (segs[i].kind = "json" /\ IsDict(segs[i].value))}

ClosingAt(segs) ==
    {i \in DOMAIN segs :
        segs[i].kind = "close" \/ (segs[i].kind = "json" /\ IsDict(segs[i].value))}

\* Where the span that the piece at position i opens is closed, the braces
\* between them balancing; 0 when it is not closed
RECURSIVE BalancedEnd(_, _, _)
BalancedEnd(segs, i, depth) ==
    IF i > Len(segs) THEN 0
    ELSE IF segs[i].kind = "open" THEN BalancedEnd(segs, i + 1, depth + 1)
    ELSE IF segs[i].kind = "close"
         THEN IF depth = 1 THEN i ELSE BalancedEnd(segs, i + 1, depth - 1)
    ELSE IF depth = 0 /\ segs[i].kind = "json" THEN i
    ELSE BalancedEnd(segs, i + 1, depth)

\* The first brace-delimited span of a text: from its first opening brace
\* to the brace that closes it; <<>> when the text has none
FirstSpan(segs) ==
    IF OpeningAt(segs) = {} \/ BalancedEnd(segs, Least(OpeningAt(segs)), 0) = 0
    THEN <<>>
    ELSE SubSeq(segs, Least(OpeningAt(segs)),
                BalancedEnd(segs, Least(OpeningAt(segs)), 0))

\* The text from the first opening brace to the last closing brace; <<>>
\* when no closing brace comes after an opening one
WidestSpan(segs) ==
    IF OpeningAt(segs) = {}
       \/ \A j \in ClosingAt(segs) :
             j < Least(OpeningAt(segs))
                \/ (j = Least(OpeningAt(segs)) /\ segs[j].kind = "open")
    THEN <<>>
    ELSE SubSeq(segs, Least(OpeningAt(segs)), Greatest(ClosingAt(segs)))

\* The two attempts: the whole text as JSON, then the span as JSON
TwoAttempts(segs, span) ==
    IF JsonLoads(segs).ok THEN JsonLoads(segs)
    ELSE IF span = <<>> THEN Raise("no span")
    ELSE JsonLoads(span)

\* A non-empty mapping an itinerary can be made of: its days, when it has
\* any, are a list
Usable(data) ==
    /\ IsDict(data)
    /\ Truthy(data)
    /\ "days" \in DOMAIN Val(data) => Tag(Val(data)["days"]) = "list"

\* The call returned the fixed synthetic itinerary for the caller's trip
IsSynthetic ==
    /\ ret.ok
    /\ Tag(ret.v) = "itinerary"
    /\ ret.v.itinerary.destination = call.trip.destination
    /\ ret.v.itinerary.duration = call.trip.duration
    /\ ret.v.itinerary.total_budget = Str("$150-450")
    /\ ret.v.itinerary.additional_tips
           = List(<<Str("Carry a reusable water bottle.")>>)
    /\ Len(ret.v.itinerary.days) = 3
    /\ \A i \in 1..3 :
          /\ Tag(ret.v.itinerary.days[i]) = "dayplan"
          /\ ret.v.itinerary.days[i].dayplan.day = Num(i)

\* The call returned an itinerary made of the mapping data
BuiltFrom(data) ==
    /\ ret.ok
    /\ ~IsSynthetic
    /\ ret.v.itinerary.destination
           = PyGet(data, "destination", call.trip.destination).v
    /\ ret.v.itinerary.total_budget
           = PyGet(data, "total_budget", Str("$150-450")).v

C12_WitnessParsed ==
    /\ Answered
    /\ call.answer.v = <<Intro, RomePlan, Outro>>
    /\ BuiltFrom(RomePlan.value)
    /\ ret.v.itinerary.destination = Str("Rome")

C12_WitnessUnavailable ==
    /\ ItineraryCalled
    /\ ~planner.llm
    /\ Len(net) = 4
    /\ IsSynthetic

\* What a request asks for: its URL, and its query or prompt if it has one
Asked(r) == <<r.url, IF "q" \in DOMAIN r THEN r.q ELSE "">>

\* No request of the call was sent twice
NothingRepeated ==
    \A i \in DOMAIN net : \A j \in DOMAIN net :
        i # j => Asked(net[i]) # Asked(net[j])

\* C13 as stated: every action makes at most one outbound call, the flight
\* search at most two, and none sends a request again.
C13_OneCallTwoForFlights ==
    ~Idle =>
        /\ Len(net) <= IF call.fn = "search_flights" THEN 2 ELSE 1
        /\ NothingRepeated

\* The most requests an operation makes
MostRequests(fn) ==
    CASE fn = "generate_itinerary" -> 5
      [] fn = "search_flights" -> 3
      [] fn = "get_travel_insights_realtime" -> 2
      [] OTHER -> 1

\* C13: the hotel search, the chat and the recommendations make at most
\* one outbound call; the flight search at most three (the two airport
\* codes, then the flights); the realtime insights at most two (the
\* insights prompt, then the recommendations prompt when the first
\* failed); the itinerary at most five (the model, the hotels, the flight
\* search's three); none sends a request again.
C13_RequestsBounded ==
    ~Idle =>
        /\ Len(net) <= MostRequests(call.fn)
        /\ NothingRepeated

\* A flight search whose three requests all fail: each is made once
C13_Witness ==
    /\ call.fn = "search_flights"
    /\ Len(net) = 3
    /\ \A i \in 1..3 : net[i].resp = ConnFail
    /\ NothingRepeated

C13_WitnessItinerary ==
    /\ ItineraryCalled
    /\ Len(net) = 5
    /\ ~net[1].resp.ok

\* The query the realtime insights ask the planner's recommendations with
TipsQuery(trip) ==
    PyStr(trip.destination) \o " (" \o PyStr(trip.duration) \o ") - budget: "
        \o PyStr(trip.budget) \o "; interests: " \o PyStr(trip.interests)

InsightsCalled == call.fn = "get_travel_insights_realtime"

\* The key is set and the Mistral insights call succeeded
MistralSucceeded ==
    Truthy(env.MISTRAL_API_KEY) /\ planner.sdk /\ call.a1.ok

\* C14: get_travel_insights_realtime never raises and returns a text: the
\* Mistral insights when MISTRAL_API_KEY is set and that call succeeds;
\* otherwise what the planner's get_travel_recommendations returns (the
\* generic tips without an llm, the model's reply with one); and when that
\* raises, 'No realtime insights available (fallback): ' and the error.
C14_FallbackOrder ==
    InsightsCalled =>
        /\ ret.ok
        /\ Tag(ret.v) = "str"
        /\ ret.v =
             IF MistralSucceeded THEN Text(call.a1.v)
             ELSE IF ~planner.llm
                  THEN Str("Pack light, check local weather, and keep digital copies of your documents.")
             ELSE IF call.a2.ok THEN Text(call.a2.v)
             ELSE Str("No realtime insights available (fallback): " \o call.a2.e)
        /\ (~MistralSucceeded /\ planner.llm) =>
              net[Len(net)].q
                  = "Give concise travel tips or recommendations for: "
                        \o TipsQuery(call.trip)

\* The Mistral insights fail, then the planner's model fails too
C14_Witness ==
    /\ InsightsCalled
    /\ Truthy(env.MISTRAL_API_KEY)
    /\ ~call.a1.ok
    /\ Len(net) = 2
    /\ ret.v = Str("No realtime insights available (fallback): MistralException")

C14_WitnessMistral ==
    /\ InsightsCalled
    /\ MistralSucceeded
    /\ Len(net) = 1
    /\ ret.v = Str("Visit in spring.")

C14_WitnessRecommendations ==
    /\ InsightsCalled
    /\ Truthy(env.MISTRAL_API_KEY)
    /\ ~call.a1.ok
    /\ ret.v = Str("Pack an umbrella.")

----------------------------------------------------------------------------
(* The flight normalizer run twice, under RepeatSpec *)

\* This search, as the record the one before it is kept as
This ==
    IF call.fn # "search_flights" THEN [fn |-> "none"]
    ELSE [fn |-> call.fn, q |-> call.q, ret |-> ret, net |-> net,
          rows |-> rows, caught |-> caught]

\* The search c got a payload for the normalizer to work on
Normalized(c) ==
    /\ c.fn = "search_flights"
    /\ Len(c.net) = 3
    /\ GetJson(c.net[3].resp).ok

\* The origin's code and the target code the search c resolved
OriginOf(c) == get_iata_code(env.RAPIDAPI_KEY, c.q.origin, c.net[1].resp).ret.v
TargetOf(c) == get_iata_code(env.RAPIDAPI_KEY, c.q.destination, c.net[2].resp).ret.v

\* This search and the one before it gave the normalizer the same payload
\* and the same target code
SamePayloadAndTarget ==
    /\ Normalized(prev)
    /\ Normalized(This)
    /\ prev.net[3].resp.body = This.net[3].resp.body
    /\ TargetOf(prev) = TargetOf(This)

\* The table in the text of a search: what follows the heading line, which
\* names the origin's code and the departure date
TableText(r) ==
    LET s == PyStr(r.v)
        breaks == {i \in 1..Len(s) : SubSeq(s, i, i) = "\n"}
        After(i) == SubSeq(s, i + 1, Len(s))
    IN  IF breaks = {} THEN s ELSE After(Least(breaks))

C15_WitnessIdentical ==
    /\ SamePayloadAndTarget
    /\ prev.q # call.q
    /\ OriginOf(prev) = OriginOf(This)
    /\ rows # <<>>
    /\ prev.ret = ret

====
